---- MODULE Spec2Model ----
(***************************************************************************)
(* Model of the restaurant analytics platform.                             *)
(* The query pipeline of services/llm_service.py:                          *)
(*   LLMSQLService      generate_sql, _clean_sql_query, execute_sql,       *)
(*                      generate_insights, get_related_questions           *)
(*   RestaurantAnalytics process_natural_language_query,                   *)
(*                      get_related_questions, validate_query_safety       *)
(* the REST handler of api/main.py, the sample data generator of           *)
(* database/data_generator.py, the dashboard of app.py, the launcher of    *)
(* run.py with the configuration of config.py.                             *)
(* A text (a Python str) is a sequence of pieces: a piece is one character *)
(* where the code looks at characters (BT stands for the backquote), or a  *)
(* whole literal where the code only copies it (a message, a column name). *)
(***************************************************************************)
EXTENDS Integers, Sequences, FiniteSets, TLC

VARIABLES
    \* ---- text functions under test (SpecClean, SpecSafe)
    text,        \* the argument being assembled: a sequence of characters
    nparts,      \* the number of fragments it was assembled from
    out,         \* the value the function returned
    out2,        \* the value of applying the function to out once more
    phase,       \* "build" | "cleaned" | "generated" | "again" | "checked" | "parsed"
    \* ---- the service and its callers (Spec)
    service,     \* the LLMSQLService object: model, db_path, schema_info
    pc,          \* per request: where its call stands
    op,          \* per request: the entry point it called
    question,    \* per request: the question argument
    sql_query,   \* per request: local sql_query of the call
    results,     \* per request: local results (a table) of the call
    insights,    \* per request: local insights of the call
    related,     \* per request: list returned by get_related_questions
    safe,        \* per request: value returned by validate_query_safety
    error,       \* per request: message of the exception that left the call
    ext_fail,    \* per request: str(e) of the last exception of a dependency
    conn,        \* per request: local conn of execute_sql: none | open | closed
    response,    \* per request: the QueryResponse of the REST handler
    log,         \* per request: the method calls/returns of the current call
    ext_replies, \* per request: what each dependency was asked and answered
    llm_calls,   \* per request: prompts sent to model.generate_content
    submitted,   \* per request: statements handed to pd.read_sql_query
    open_conns,  \* sqlite3 connections opened and not closed
    ncalls,      \* entry-point calls started so far
    \* ---- the digest of a result table (SpecDigest)
    table,       \* the DataFrame given to _prepare_results_summary
    \* ---- the sample data generator (SpecReviews, SpecOrders)
    reviews,     \* the reviews generate_reviews has produced
    order,       \* the order generate_orders is producing, with its items
    \* ---- the dashboard (SpecUI)
    session_state, \* st.session_state: page, selected_question, query_input
    widgets,     \* what the last run of the script rendered, and the click
    \* ---- the launcher (SpecEnv)
    env_file,    \* the .env file: whether it exists, its lines
    launcher     \* run.py: what its checks found, how it ended

textVars == <<text, nparts, out, out2, phase>>
svcVars  == <<service, pc, op, question, sql_query, results, insights, related,
              safe, error, ext_fail, conn, response, log, ext_replies, llm_calls,
              submitted, open_conns, ncalls>>
auxVars  == <<table, reviews, order, session_state, widgets, env_file, launcher>>
vars     == <<textVars, svcVars, auxVars>>

(***************************************************************************)
(* Bounds of the model.                                                    *)
(***************************************************************************)
MaxParts == 5        \* fragments in an assembled response text
MaxWords == 3        \* fragments in an assembled statement for the safety gate
MaxCalls == 2        \* entry-point calls started in one behaviour

\* the argument starts empty
InitText == text = <<>> /\ nparts = 0 /\ out = <<>> /\ out2 = <<>> /\ phase = "build"

(***************************************************************************)
(* Python str operations used by the code.                                 *)
(***************************************************************************)
NL == "\n"

\* str.strip() with no argument removes whitespace
IsSpace(c) == c \in {" ", NL, "\t", "\r"}

RECURSIVE LStrip(_)
LStrip(s) == IF s # <<>> /\ IsSpace(Head(s)) THEN LStrip(Tail(s)) ELSE s

RECURSIVE RStrip(_)
RStrip(s) ==
    IF s # <<>> /\ IsSpace(s[Len(s)]) THEN RStrip(SubSeq(s, 1, Len(s) - 1)) ELSE s

Strip(s) == RStrip(LStrip(s))

\* s[i:].startswith(p)
MatchAt(s, i, p) ==
    /\ i + Len(p) - 1 <= Len(s)
    /\ SubSeq(s, i, i + Len(p) - 1) = p

\* s.endswith(p)
EndsWith(s, p) == Len(p) <= Len(s) /\ MatchAt(s, Len(s) - Len(p) + 1, p)

\* p in s
RECURSIVE FindFrom(_, _, _)
FindFrom(s, p, i) ==
    IF i + Len(p) - 1 > Len(s) THEN FALSE
    ELSE IF MatchAt(s, i, p) THEN TRUE
    ELSE FindFrom(s, p, i + 1)

Contains(s, p) == FindFrom(s, p, 1)

\* re.sub(lit + r'\n?', '', s): leftmost, non-overlapping matches of the literal,
\* each with one following newline when there is one, are deleted
RECURSIVE SubFrom(_, _, _)
SubFrom(lit, s, i) ==
    IF i > Len(s) THEN <<>>
    ELSE IF MatchAt(s, i, lit)
         THEN LET j == i + Len(lit)
                  k == IF j <= Len(s) /\ s[j] = NL THEN j + 1 ELSE j
              IN  SubFrom(lit, s, k)
         ELSE <<s[i]>> \o SubFrom(lit, s, i + 1)

ReSubOptNewline(lit, s) == SubFrom(lit, s, 1)

\* the backquote character (SANY accepts no backquote inside a string)
BT == "BQ"

Fence    == <<BT, BT, BT>>
FenceSql == <<BT, BT, BT, "s", "q", "l">>
Semi     == <<";">>

\* variant: the terminator is appended without looking at the end of the text
clean_sql_query_always_appends(s) ==
    Strip(ReSubOptNewline(Fence, ReSubOptNewline(FenceSql, s))) \o Semi

\* variant: only the fence tagged sql is removed, the bare fence is left
clean_sql_query_sql_fence_only(s) ==
    LET c == Strip(ReSubOptNewline(FenceSql, s))
    IN  IF ~EndsWith(c, Semi) THEN c \o Semi ELSE c

\* variant: every backquote is removed, not only a run of three
clean_sql_query_any_backquote(s) ==
    LET c == Strip(ReSubOptNewline(<<BT>>, ReSubOptNewline(FenceSql, s)))
    IN  IF ~EndsWith(c, Semi) THEN c \o Semi ELSE c

\* variant: whitespace is removed before the fences, not after
clean_sql_query_strips_first(s) ==
    LET c == ReSubOptNewline(Fence, ReSubOptNewline(FenceSql, Strip(s)))
    IN  IF ~EndsWith(c, Semi) THEN c \o Semi ELSE c

(***************************************************************************)
(* LLMSQLService._clean_sql_query                                          *)
(***************************************************************************)
clean_sql_query(s) ==
    LET a == ReSubOptNewline(FenceSql, s)
        b == ReSubOptNewline(Fence, a)
        c == Strip(b)
    IN  IF ~EndsWith(c, Semi) THEN c \o Semi ELSE c

\* lines 125-128 of generate_sql: response.text.strip(), then _clean_sql_query
generate_sql_text(t) == clean_sql_query(Strip(t))

(***************************************************************************)
(* The service: LLMSQLService.__init__                                     *)
(***************************************************************************)
Requests == {"r1", "r2"}

NoText == <<>>

get_schema_info == <<"DATABASE SCHEMA: restaurants, menu_items, customers, orders, order_items, reviews">>

InitService ==
    [ model       |-> "gemini-1.5-pro",
      db_path     |-> "restaurant_analytics.db",
      schema_info |-> get_schema_info ]

(***************************************************************************)
(* The environment: what the callers pass in, what the external model and  *)
(* the store answer.                                                       *)
(***************************************************************************)
Questions == {<<"top restaurants by revenue?">>, <<"DROP the orders">>}

StmtSelect == <<"S", "E", "L", "E", "C", "T", " ", "1">>
StmtDrop   == <<"D", "R", "O", "P", " ", "T", "A", "B", "L", "E", " ", "t", ";">>

\* response.text of the model for a SQL prompt
SqlResponses ==
    { StmtSelect \o Semi,
      FenceSql \o <<NL>> \o StmtSelect \o <<NL>> \o Fence,
      StmtDrop }

\* response.text of the model for an insights prompt
InsightResponses == { <<" ", "r", "e", "v", "e", "n", "u", "e", " ", "u", "p", NL>> }

\* response.text of the model for a related-questions prompt
RelatedResponses ==
    { <<"a", "?", NL, " ", "b", "?", " ", NL, NL, "c", "?">>,
      <<"1", NL, "2", NL, "3", NL, "4", NL, "5", NL, "6">>,
      <<" ", NL>>,
      NoText }

\* model.generate_content(prompt): it raises, or returns a response whose .text
\* raises (no candidate text), or returns a response with a text
LlmOutcomes(texts) ==
    { [kind |-> "raise", msg |-> <<"API Error">>],
      [kind |-> "notext", msg |-> <<"response.text requires a valid Part">>] }
    \cup { [kind |-> "text", text |-> t] : t \in texts }

TableEmpty ==
    [ columns |-> <<"name", "revenue">>, dtypes |-> <<"object", "int64">>,
      rows |-> <<>> ]
TableTwo ==
    [ columns |-> <<"name", "revenue">>, dtypes |-> <<"object", "int64">>,
      rows |-> << <<"Restaurant A", 1500>>, <<"Restaurant B", 1200>> >> ]
NoTable == [columns |-> <<>>, dtypes |-> <<>>, rows |-> <<>>]

Tables == {TableEmpty, TableTwo}

\* pd.read_sql_query(sql_query, conn): the store rejects the statement or
\* answers with a table
StoreOutcomes ==
    { [kind |-> "raise", msg |-> <<"no such table: t">>] }
    \cup { [kind |-> "table", table |-> t] : t \in Tables }

\* sqlite3.connect(db_path)
ConnectOutcomes ==
    { [kind |-> "ok"],
      [kind |-> "raise", msg |-> <<"unable to open database file">>] }

(***************************************************************************)
(* Pure helpers of the service.                                            *)
(***************************************************************************)
\* str.lower() on one character
LowerChar(c) ==
    CASE c = "A" -> "a" [] c = "B" -> "b" [] c = "C" -> "c" [] c = "D" -> "d"
      [] c = "E" -> "e" [] c = "F" -> "f" [] c = "G" -> "g" [] c = "H" -> "h"
      [] c = "I" -> "i" [] c = "J" -> "j" [] c = "K" -> "k" [] c = "L" -> "l"
      [] c = "M" -> "m" [] c = "N" -> "n" [] c = "O" -> "o" [] c = "P" -> "p"
      [] c = "Q" -> "q" [] c = "R" -> "r" [] c = "S" -> "s" [] c = "T" -> "t"
      [] c = "U" -> "u" [] c = "V" -> "v" [] c = "W" -> "w" [] c = "X" -> "x"
      [] c = "Y" -> "y" [] c = "Z" -> "z" [] OTHER -> c

Lower(s) == [i \in 1..Len(s) |-> LowerChar(s[i])]

\* the elements of a list
Range(seq) == { seq[i] : i \in 1..Len(seq) }

\* sep.join(items), every item one piece
RECURSIVE Join(_, _)
Join(items, sep) ==
    IF items = <<>> THEN <<>>
    ELSE IF Len(items) = 1 THEN <<items[1]>>
    ELSE <<items[1], sep>> \o Join(Tail(items), sep)

\* s.split('\n')
RECURSIVE SplitFrom(_, _, _)
SplitFrom(s, i, cur) ==
    IF i > Len(s) THEN <<cur>>
    ELSE IF s[i] = NL THEN <<cur>> \o SplitFrom(s, i + 1, <<>>)
    ELSE SplitFrom(s, i + 1, Append(cur, s[i]))

SplitLines(s) == SplitFrom(s, 1, <<>>)

\* seq[:n]
Take(seq, n) == SubSeq(seq, 1, IF Len(seq) < n THEN Len(seq) ELSE n)

\* DataFrame.empty: some axis has length zero
IsEmpty(t) == Len(t.rows) = 0 \/ Len(t.columns) = 0

\* LLMSQLService._create_sql_prompt: the schema descriptor and the question
create_sql_prompt(svc, q) ==
    [kind |-> "sql", schema |-> svc.schema_info, question |-> q]

\* results.select_dtypes(include=['number']).columns
RECURSIVE NumericCols(_, _)
NumericCols(t, i) ==
    IF i > Len(t.columns) THEN <<>>
    ELSE (IF t.dtypes[i] \in {"int64", "float64"} THEN <<t.columns[i]>> ELSE <<>>)
         \o NumericCols(t, i + 1)

HeadRows == 5

\* variant: the rows of the sample are counted, not the rows of the table
prepare_results_summary_counts_sample(t) ==
    LET numeric_cols == NumericCols(t, 1) IN
    [ nrows   |-> Len(Take(t.rows, HeadRows)),
      columns |-> Join(t.columns, ", "),
      sample  |-> Take(t.rows, HeadRows),
      stats   |-> IF Len(numeric_cols) > 0
                  THEN <<"Numeric column statistics:">> \o numeric_cols
                  ELSE <<>> ]

\* LLMSQLService._prepare_results_summary
prepare_results_summary(t) ==
    LET numeric_cols == NumericCols(t, 1) IN
    [ nrows   |-> Len(t.rows),
      columns |-> Join(t.columns, ", "),
      sample  |-> Take(t.rows, HeadRows),
      stats   |-> IF Len(numeric_cols) > 0
                  THEN <<"Numeric column statistics:">> \o numeric_cols
                  ELSE <<>> ]

InsightsPrompt(q, summary) ==
    [kind |-> "insights", question |-> q, summary |-> summary]

\* variant: the column names are given whenever the table has columns
RelatedPrompt_named_columns(q, t) ==
    [ kind |-> "related", question |-> q,
      columns |-> IF Len(t.columns) > 0 THEN Join(t.columns, ", ") ELSE <<"No results">> ]

\* the prompt of get_related_questions, lines 221-236
RelatedPrompt(q, t) ==
    [ kind |-> "related", question |-> q,
      columns |-> IF ~IsEmpty(t) THEN Join(t.columns, ", ") ELSE <<"No results">> ]

NoDataFound == <<"No data found for the given query.">>

MaxRelated == 5

FallbackQuestions ==
    << <<"What are the top-performing menu items by revenue?">>,
       <<"How do customer ratings vary by cuisine type?">>,
       <<"What are the peak ordering hours?">>,
       <<"Which restaurants have the highest customer retention?">>,
       <<"What's the average order value by customer age group?">> >>

\* [q.strip() for q in lines if q.strip()]
RECURSIVE StripNonEmpty(_)
StripNonEmpty(lines) ==
    IF lines = <<>> THEN <<>>
    ELSE (IF Strip(Head(lines)) # <<>> THEN <<Strip(Head(lines))>> ELSE <<>>)
         \o StripNonEmpty(Tail(lines))

\* variant: the list is returned whole
ParseRelated_untruncated(t) == StripNonEmpty(SplitLines(Strip(t)))

\* lines 239-242 of get_related_questions
ParseRelated(t) == Take(StripNonEmpty(SplitLines(Strip(t))), MaxRelated)

(***************************************************************************)
(* RestaurantAnalytics.validate_query_safety                               *)
(***************************************************************************)
DangerousKeywords ==
    << <<"d", "r", "o", "p">>, <<"d", "e", "l", "e", "t", "e">>,
       <<"u", "p", "d", "a", "t", "e">>, <<"i", "n", "s", "e", "r", "t">>,
       <<"a", "l", "t", "e", "r">>, <<"c", "r", "e", "a", "t", "e">> >>

RECURSIVE NoKeywordFrom(_, _, _)
NoKeywordFrom(query_lower, keywords, i) ==
    IF i > Len(keywords) THEN TRUE
    ELSE IF Contains(query_lower, keywords[i]) THEN FALSE
    ELSE NoKeywordFrom(query_lower, keywords, i + 1)

\* variant: the statement is searched as written, not lower-cased
validate_query_safety_case_sensitive(sql) == NoKeywordFrom(sql, DangerousKeywords, 1)

validate_query_safety(sql) == NoKeywordFrom(Lower(sql), DangerousKeywords, 1)

(***************************************************************************)
(* Results of the stages, one operator per method body.                    *)
(***************************************************************************)
Ok(v)     == [ok |-> TRUE,  value |-> v, msg |-> NoText]
Raised(m) == [ok |-> FALSE, value |-> NoText, msg |-> m]

\* str(e) of the exception an external call left behind
ExcMsg(outcome) == outcome.msg

\* variant: the original exception is raised again as it is
generate_sql_untagged(outcome) ==
    IF outcome.kind = "text"
    THEN Ok(clean_sql_query(Strip(outcome.text)))
    ELSE Raised(ExcMsg(outcome))

\* LLMSQLService.generate_sql, given what model.generate_content did
generate_sql(outcome) ==
    IF outcome.kind = "text"
    THEN Ok(generate_sql_text(outcome.text))
    ELSE Raised(<<"Error generating SQL: ">> \o ExcMsg(outcome))

\* LLMSQLService.execute_sql, line 157 failing: the except clause
execute_sql_connect_failed(outcome) ==
    Raised(<<"Error executing SQL: ">> \o ExcMsg(outcome))

\* variant: the exception of the store is raised again as it is
execute_sql_untagged(outcome) ==
    IF outcome.kind = "table"
    THEN [ok |-> TRUE, value |-> outcome.table, msg |-> NoText]
    ELSE [ok |-> FALSE, value |-> NoTable, msg |-> ExcMsg(outcome)]

\* LLMSQLService.execute_sql, lines 158-162, given what pd.read_sql_query did
execute_sql(outcome) ==
    IF outcome.kind = "table"
    THEN [ok |-> TRUE, value |-> outcome.table, msg |-> NoText]
    ELSE [ok |-> FALSE, value |-> NoTable,
          msg |-> <<"Error executing SQL: ">> \o ExcMsg(outcome)]

\* LLMSQLService.execute_sql: conn.close() is line 159, reached only on the
\* path where pd.read_sql_query returned
closes_connection(outcome) == outcome.kind = "table"

NoOutcome == [kind |-> "none", msg |-> NoText]

\* variant: a failure of the narration is raised, as generate_sql raises
generate_insights_propagates(t, outcome) ==
    IF IsEmpty(t) THEN Ok(<<"No data found for the given query.">>)
    ELSE IF outcome.kind = "text" THEN Ok(Strip(outcome.text))
    ELSE Raised(<<"Error generating insights: ">> \o ExcMsg(outcome))

\* variant: the text of the model is returned as it came
generate_insights_untrimmed(t, outcome) ==
    IF IsEmpty(t) THEN Ok(<<"No data found for the given query.">>)
    ELSE IF outcome.kind = "text" THEN Ok(outcome.text)
    ELSE Ok(<<"Error generating insights: ">> \o ExcMsg(outcome))

\* LLMSQLService.generate_insights: the whole body is inside try/except, the
\* except clause returns a string
generate_insights(t, outcome) ==
    IF IsEmpty(t) THEN Ok(NoDataFound)
    ELSE IF outcome.kind = "text" THEN Ok(Strip(outcome.text))
    ELSE Ok(<<"Error generating insights: ">> \o ExcMsg(outcome))

\* variant: a failure of the call of the model is raised
get_related_questions_propagates(outcome) ==
    IF outcome.kind = "text"
    THEN [ok |-> TRUE, value |-> ParseRelated(outcome.text), msg |-> NoText]
    ELSE [ok |-> FALSE, value |-> <<>>, msg |-> ExcMsg(outcome)]

\* LLMSQLService.get_related_questions: the whole body is inside try/except,
\* the except clause returns the predefined list
get_related_questions(outcome) ==
    IF outcome.kind = "text"
    THEN [ok |-> TRUE, value |-> ParseRelated(outcome.text), msg |-> NoText]
    ELSE [ok |-> TRUE, value |-> FallbackQuestions, msg |-> NoText]

\* variant: the results are narrated without the statement being executed
answer_next_skips_execute(stage, value) ==
    CASE stage = "generate_sql"      -> "insights"
      [] stage = "execute_sql"       -> "insights"
      [] stage = "generate_insights" -> "returned"

\* variant: the orchestrator runs the safety gate on the generated statement
\* and gives up on a statement the gate rejects
answer_next_gated(stage, value) ==
    CASE stage = "generate_sql" ->
            IF NoKeywordFrom(Lower(value), DangerousKeywords, 1)
            THEN "execute" ELSE "raised"
      [] stage = "execute_sql"       -> "insights"
      [] stage = "generate_insights" -> "returned"

\* RestaurantAnalytics.process_natural_language_query, lines 266-275: what
\* follows the stage that just returned its value
answer_next(stage, value) ==
    CASE stage = "generate_sql"      -> "execute"
      [] stage = "execute_sql"       -> "insights"
      [] stage = "generate_insights" -> "returned"

ANSWER == "process_natural_language_query"
API    == "POST /api/query"

\* api/main.py process_natural_language_query, lines 97-116: the orchestrator,
\* then get_related_questions, then the response
api_next(stage, value) ==
    IF stage = "get_related_questions" THEN "returned"
    ELSE IF answer_next(stage, value) = "returned" THEN "related"
    ELSE answer_next(stage, value)

\* where a call goes after `stage` returned: on inside the orchestrator or the
\* REST handler, back to the caller when the method was called directly
NextPc(o, stage, value) ==
    IF o = ANSWER THEN answer_next(stage, value)
    ELSE IF o = API THEN api_next(stage, value)
    ELSE "returned"

\* variant: a failed stage is attempted again
on_failure_retries(o, at) == at

\* variant: the REST handler has no except clause
on_failure_uncaught(o, at) == "raised"

\* where a call goes when a stage raised at `at`: no method has a retry loop and
\* the orchestrator has no try block, so the exception reaches the caller; the
\* REST handler catches it (line 118) and returns a response
on_failure(o, at) == IF o = API THEN "returned" ELSE "raised"

\* variant: the service keeps the last value a stage produced
service_after_caching(svc, stage, value) ==
    [ model |-> svc.model, db_path |-> svc.db_path, schema_info |-> svc.schema_info,
      last |-> value ]

\* the service object after a method ran: no method assigns to self
service_after(svc, stage, value) == svc

\* variant: the statement to execute is read from a slot all calls share
statement_shared(r, sqls) == sqls["r1"]

\* line 270: execute_sql gets the local sql_query of this call
statement_for(r, sqls) == sqls[r]

\* variant: the model is asked for insights on an empty table too
narration_called_always(t, d) == d.kind = "ok"

\* generate_insights, lines 169-191: the model is called when the table is not
\* empty and the digest was built
narration_called(t, d) == ~IsEmpty(t) /\ d.kind = "ok"

Call(name)   == <<"call", name>>
Ret(name)    == <<"return", name>>
Raise(name)  == <<"raise", name>>

\* the log entries when `stage` returns, inside entry point o
LogReturn(o, stage, value) ==
    CASE o = ANSWER /\ NextPc(o, stage, value) = "returned" -> <<Ret(stage), Ret(o)>>
      [] o = API /\ stage = "generate_insights" -> <<Ret(stage), Ret(ANSWER)>>
      [] o = API /\ stage = "get_related_questions" -> <<Ret(stage), Ret(API)>>
      [] OTHER -> <<Ret(stage)>>

\* the log entries when `stage` raises, inside entry point o: the orchestrator
\* has no try block, the exception leaves it too; the REST handler returns
LogRaise(o, stage) ==
    CASE o = ANSWER -> <<Raise(stage), Raise(o)>>
      [] o = API /\ on_failure(o, "") = "returned" ->
            <<Raise(stage), Raise(ANSWER), Ret(API)>>
      [] o = API /\ on_failure(o, "") # "returned" -> <<Raise(stage), Raise(ANSWER)>>
      [] OTHER -> <<Raise(stage)>>

(***************************************************************************)
(* api/main.py: the QueryResponse of POST /api/query                        *)
(***************************************************************************)
\* results.to_dict('records'): one mapping column -> value per row
to_dict_records(t) ==
    [ i \in 1..Len(t.rows) |->
        [ c \in Range(t.columns) |->
            t.rows[i][CHOOSE j \in 1..Len(t.columns) : t.columns[j] = c] ] ]

NoResponse ==
    [ question |-> NoText, sql_query |-> NoText, results |-> <<>>,
      insights |-> NoText, related_questions |-> <<>>, success |-> FALSE,
      error |-> NoText ]

\* lines 109-116
query_response_ok(q, sql, t, ins, rel) ==
    [ question |-> q, sql_query |-> sql, results |-> to_dict_records(t),
      insights |-> ins, related_questions |-> rel, success |-> TRUE,
      error |-> NoText ]

\* lines 118-127
query_response_failed(q, msg) ==
    [ question |-> q, sql_query |-> NoText, results |-> <<>>,
      insights |-> NoText, related_questions |-> <<>>, success |-> FALSE,
      error |-> msg ]

(***************************************************************************)
(* Init: the service is constructed, no call is in progress.               *)
(***************************************************************************)
InitSvc ==
    /\ service = InitService
    /\ pc = [r \in Requests |-> "idle"]
    /\ op = [r \in Requests |-> "none"]
    /\ question = [r \in Requests |-> NoText]
    /\ sql_query = [r \in Requests |-> NoText]
    /\ results = [r \in Requests |-> NoTable]
    /\ insights = [r \in Requests |-> NoText]
    /\ related = [r \in Requests |-> <<>>]
    /\ safe = [r \in Requests |-> TRUE]
    /\ error = [r \in Requests |-> NoText]
    /\ ext_fail = [r \in Requests |-> NoText]
    /\ conn = [r \in Requests |-> "none"]
    /\ response = [r \in Requests |-> NoResponse]
    /\ log = [r \in Requests |-> <<>>]
    /\ ext_replies = [r \in Requests |-> <<>>]
    /\ llm_calls = [r \in Requests |-> <<>>]
    /\ submitted = [r \in Requests |-> <<>>]
    /\ open_conns = 0
    /\ ncalls = 0

(***************************************************************************)
(* Initial values of the parts outside the query pipeline.                 *)
(***************************************************************************)
\* no table has been handed to _prepare_results_summary yet
InitDigest == table = NoTable

NoOrder ==
    [ state |-> "none", restaurant_id |-> 0, num_items |-> 0, items |-> <<>>,
      total |-> 0, total_amount |-> 0 ]

\* generate_reviews, line 203: reviews = []; no order is being produced
InitData == reviews = <<>> /\ order = NoOrder

\* a key that is not in st.session_state
Absent == "<absent>"

NoClick == [kind |-> "none", arg |-> ""]

\* a new browser session: st.session_state is empty, nothing is rendered
InitUI ==
    /\ session_state =
            [page |-> Absent, selected_question |-> Absent, query_input |-> Absent]
    /\ widgets =
            [ shown |-> "none", select_index |-> 0, select_value |-> "",
              input_shown |-> FALSE, input_default |-> "", input_value |-> "",
              related_buttons |-> <<>>, sample_buttons |-> FALSE, message |-> "",
              rerun |-> FALSE, click |-> NoClick ]

\* run.py has not been started and there is no .env file
\* os.getenv of a variable that is not set
None == <<"<None>">>

InitEnv ==
    /\ env_file = [exists |-> FALSE, lines |-> <<>>]
    /\ launcher = [ state |-> "idle", mode |-> "", check |-> FALSE, skip_checks |-> FALSE,
                    deps_ok |-> FALSE, env_check |-> "none", exit |-> 0,
                    key |-> None, config |-> "none" ]

InitAux == InitDigest /\ InitData /\ InitUI /\ InitEnv

Init == InitText /\ InitSvc /\ InitAux

(***************************************************************************)
(* Entry points: a caller (REST handler, dashboard, test) invokes a method *)
(* of the shared service object.                                           *)
(***************************************************************************)
Statements == { generate_sql_text(t) : t \in SqlResponses }

Begin(r, o, first, q, s, t) ==
    /\ pc[r] = "idle"
    /\ ncalls < MaxCalls
    /\ ncalls' = ncalls + 1
    /\ pc' = [pc EXCEPT ![r] = first]
    /\ op' = [op EXCEPT ![r] = o]
    /\ question' = [question EXCEPT ![r] = q]
    /\ sql_query' = [sql_query EXCEPT ![r] = s]
    /\ results' = [results EXCEPT ![r] = t]
    /\ log' = [log EXCEPT ![r] =
                CASE o = ANSWER -> <<Call(ANSWER)>>
                  [] o = API    -> <<Call(API), Call(ANSWER)>>
                  [] OTHER      -> <<>>]
    /\ UNCHANGED <<service, insights, related, safe, error, ext_fail, conn,
                   response, ext_replies, llm_calls, submitted, open_conns,
                   textVars, auxVars>>

\* analytics.process_natural_language_query(question)
CallAnswer(r) ==
    \E q \in Questions : Begin(r, ANSWER, "generate", q, NoText, NoTable)

\* POST /api/query with request.question
CallApiQuery(r) ==
    \E q \in Questions : Begin(r, API, "generate", q, NoText, NoTable)

\* llm_service.generate_sql(question), called directly
CallGenerateSql(r) ==
    \E q \in Questions : Begin(r, "generate_sql", "generate", q, NoText, NoTable)

\* llm_service.execute_sql(sql_query), called directly
CallExecuteSql(r) ==
    \E s \in Statements : Begin(r, "execute_sql", "execute", NoText, s, NoTable)

\* llm_service.generate_insights(question, results), called directly
CallGenerateInsights(r) ==
    \E q \in Questions, t \in Tables :
        Begin(r, "generate_insights", "insights", q, NoText, t)

\* analytics.get_related_questions(question, results)
CallGetRelatedQuestions(r) ==
    \E q \in Questions, t \in Tables :
        Begin(r, "get_related_questions", "related", q, NoText, t)

\* analytics.validate_query_safety(sql_query)
CallValidateQuerySafety(r) ==
    \E s \in Statements :
        Begin(r, "validate_query_safety", "safety", NoText, s, NoTable)

(***************************************************************************)
(* The stages.                                                             *)
(***************************************************************************)
\* the failure a dependency left behind, if it failed
FailureOf(outcome) == IF outcome.kind \in {"raise", "notext"} THEN outcome.msg ELSE NoText

Reply(dep, request, outcome) == [dep |-> dep, request |-> request, outcome |-> outcome]

\* a stage is left: with a value (the call goes on, or returns), or with an
\* exception, which nothing between the stage and the caller catches, except
\* the REST handler, which turns it into a response
Leave(r, stage, res, pre) ==
    IF res.ok
    THEN /\ pc' = [pc EXCEPT ![r] = NextPc(op[r], stage, res.value)]
         /\ log' = [log EXCEPT ![r] = @ \o pre \o LogReturn(op[r], stage, res.value)]
         /\ service' = service_after(service, stage, res.value)
         /\ response' = [response EXCEPT ![r] =
                IF op[r] = API /\ NextPc(op[r], stage, res.value) = "returned"
                THEN query_response_ok(question[r], sql_query[r], results[r],
                                       insights[r], res.value)
                ELSE @]
         /\ UNCHANGED error
    ELSE /\ pc' = [pc EXCEPT ![r] = on_failure(op[r], pc[r])]
         /\ log' = [log EXCEPT ![r] = @ \o pre \o LogRaise(op[r], stage)]
         /\ service' = service_after(service, stage, res.msg)
         /\ response' = [response EXCEPT ![r] =
                IF on_failure(op[r], pc[r]) = "returned"
                THEN query_response_failed(question[r], res.msg) ELSE @]
         /\ error' = [error EXCEPT ![r] =
                IF on_failure(op[r], pc[r]) = "raised" THEN res.msg ELSE @]

\* LLMSQLService.generate_sql
GenerateSql(r) ==
    /\ pc[r] = "generate"
    /\ \E o \in LlmOutcomes(SqlResponses) :
        LET res == generate_sql(o)
            prompt == create_sql_prompt(service, question[r])
        IN  /\ llm_calls' = [llm_calls EXCEPT ![r] = Append(@, prompt)]
            /\ ext_replies' = [ext_replies EXCEPT ![r] = Append(@, Reply("llm", prompt, o))]
            /\ ext_fail' = [ext_fail EXCEPT ![r] = FailureOf(o)]
            /\ sql_query' = [sql_query EXCEPT ![r] = IF res.ok THEN res.value ELSE @]
            /\ Leave(r, "generate_sql", res, <<Call("generate_sql")>>)
    /\ UNCHANGED <<op, question, results, insights, related, safe, conn,
                   submitted, open_conns, ncalls, textVars, auxVars>>

\* LLMSQLService.execute_sql, line 157: sqlite3.connect(self.db_path)
ExecuteConnect(r) ==
    /\ pc[r] = "execute"
    /\ \E o \in ConnectOutcomes :
        /\ ext_replies' = [ext_replies EXCEPT
                ![r] = Append(@, Reply("connect", service.db_path, o))]
        /\ IF o.kind = "ok"
           THEN /\ open_conns' = open_conns + 1
                /\ conn' = [conn EXCEPT ![r] = "open"]
                /\ pc' = [pc EXCEPT ![r] = "reading"]
                /\ log' = [log EXCEPT ![r] = Append(@, Call("execute_sql"))]
                /\ UNCHANGED <<error, ext_fail, service, response>>
           ELSE /\ ext_fail' = [ext_fail EXCEPT ![r] = FailureOf(o)]
                /\ Leave(r, "execute_sql", execute_sql_connect_failed(o),
                         <<Call("execute_sql")>>)
                /\ UNCHANGED <<open_conns, conn>>
    /\ UNCHANGED <<op, question, sql_query, results, insights, related,
                   safe, llm_calls, submitted, ncalls, textVars, auxVars>>

\* LLMSQLService.execute_sql, lines 158-162: read, close, return (or raise)
ExecuteRead(r) ==
    /\ pc[r] = "reading"
    /\ \E o \in StoreOutcomes :
        LET res == execute_sql(o)
            stmt == statement_for(r, sql_query)
        IN  /\ submitted' = [submitted EXCEPT ![r] = Append(@, stmt)]
            /\ ext_replies' = [ext_replies EXCEPT ![r] = Append(@, Reply("store", stmt, o))]
            /\ ext_fail' = [ext_fail EXCEPT ![r] = FailureOf(o)]
            /\ IF closes_connection(o)
               THEN /\ open_conns' = open_conns - 1
                    /\ conn' = [conn EXCEPT ![r] = "closed"]
               ELSE UNCHANGED <<open_conns, conn>>
            /\ results' = [results EXCEPT ![r] = IF res.ok THEN res.value ELSE @]
            /\ Leave(r, "execute_sql", res, <<>>)
    /\ UNCHANGED <<op, question, sql_query, insights, related, safe,
                   llm_calls, ncalls, textVars, auxVars>>

\* _prepare_results_summary either builds the digest or a pandas call in it raises
SummaryOutcomes ==
    { [kind |-> "ok", msg |-> NoText],
      [kind |-> "raise", msg |-> <<"sequence item 0: expected str instance">>] }

\* LLMSQLService.generate_insights
GenerateInsights(r) ==
    /\ pc[r] = "insights"
    /\ \E d \in SummaryOutcomes, o \in LlmOutcomes(InsightResponses) :
        \* what failed, if anything: nothing is called for an empty table, the
        \* model is not called when the digest could not be built
        LET called == narration_called(results[r], d)
            eff == IF called THEN o
                   ELSE IF IsEmpty(results[r]) THEN NoOutcome ELSE d
            res == generate_insights(results[r], eff)
            prompt == InsightsPrompt(question[r], prepare_results_summary(results[r]))
        IN  /\ llm_calls' = [llm_calls EXCEPT ![r] =
                    IF called THEN Append(@, prompt) ELSE @]
            /\ ext_replies' = [ext_replies EXCEPT ![r] =
                    IF called THEN Append(@, Reply("llm", prompt, o)) ELSE @]
            /\ ext_fail' = [ext_fail EXCEPT ![r] = FailureOf(eff)]
            /\ insights' = [insights EXCEPT ![r] = IF res.ok THEN res.value ELSE @]
            /\ Leave(r, "generate_insights", res, <<Call("generate_insights")>>)
    /\ UNCHANGED <<op, question, sql_query, results, related, safe, conn,
                   submitted, open_conns, ncalls, textVars, auxVars>>

\* RestaurantAnalytics.get_related_questions -> LLMSQLService.get_related_questions
GetRelatedQuestions(r) ==
    /\ pc[r] = "related"
    /\ \E o \in LlmOutcomes(RelatedResponses) :
        LET res == get_related_questions(o)
            prompt == RelatedPrompt(question[r], results[r])
        IN  /\ llm_calls' = [llm_calls EXCEPT ![r] = Append(@, prompt)]
            /\ ext_replies' = [ext_replies EXCEPT ![r] = Append(@, Reply("llm", prompt, o))]
            /\ ext_fail' = [ext_fail EXCEPT ![r] = FailureOf(o)]
            /\ related' = [related EXCEPT ![r] = IF res.ok THEN res.value ELSE @]
            /\ Leave(r, "get_related_questions", res, <<Call("get_related_questions")>>)
    /\ UNCHANGED <<op, question, sql_query, results, insights, safe, conn,
                   submitted, open_conns, ncalls, textVars, auxVars>>

\* RestaurantAnalytics.validate_query_safety
ValidateQuerySafety(r) ==
    /\ pc[r] = "safety"
    /\ safe' = [safe EXCEPT ![r] = validate_query_safety(sql_query[r])]
    /\ pc' = [pc EXCEPT ![r] = "returned"]
    /\ log' = [log EXCEPT ![r] = @ \o <<Call("validate_query_safety"),
                                         Ret("validate_query_safety")>>]
    /\ service' = service_after(service, "validate_query_safety",
                                validate_query_safety(sql_query[r]))
    /\ UNCHANGED <<op, question, sql_query, results, insights, related,
                   error, ext_fail, conn, response, ext_replies, llm_calls, submitted,
                   open_conns, ncalls, textVars, auxVars>>

\* the caller has taken the value (or the exception); the call's locals are gone
Return(r) ==
    /\ pc[r] \in {"returned", "raised"}
    /\ pc' = [pc EXCEPT ![r] = "idle"]
    /\ op' = [op EXCEPT ![r] = "none"]
    /\ question' = [question EXCEPT ![r] = NoText]
    /\ sql_query' = [sql_query EXCEPT ![r] = NoText]
    /\ results' = [results EXCEPT ![r] = NoTable]
    /\ insights' = [insights EXCEPT ![r] = NoText]
    /\ related' = [related EXCEPT ![r] = <<>>]
    /\ safe' = [safe EXCEPT ![r] = TRUE]
    /\ error' = [error EXCEPT ![r] = NoText]
    /\ ext_fail' = [ext_fail EXCEPT ![r] = NoText]
    /\ conn' = [conn EXCEPT ![r] = "none"]
    /\ response' = [response EXCEPT ![r] = NoResponse]
    /\ log' = [log EXCEPT ![r] = <<>>]
    /\ ext_replies' = [ext_replies EXCEPT ![r] = <<>>]
    /\ llm_calls' = [llm_calls EXCEPT ![r] = <<>>]
    /\ submitted' = [submitted EXCEPT ![r] = <<>>]
    /\ UNCHANGED <<service, open_conns, ncalls, textVars, auxVars>>

\* the interpreter finalizes a connection object nothing refers to any more,
\* which closes it: when, if ever, is up to the garbage collector
FinalizeConnection ==
    /\ open_conns > Cardinality({r \in Requests : conn[r] = "open"})
    /\ open_conns' = open_conns - 1
    /\ UNCHANGED <<service, pc, op, question, sql_query, results, insights, related,
                   safe, error, ext_fail, conn, response, log, ext_replies, llm_calls,
                   submitted, ncalls, textVars, auxVars>>

Next ==
    \/ FinalizeConnection
    \/ \E r \in Requests :
        \/ CallAnswer(r)
        \/ CallApiQuery(r)
        \/ CallGenerateSql(r)
        \/ CallExecuteSql(r)
        \/ CallGenerateInsights(r)
        \/ CallGetRelatedQuestions(r)
        \/ CallValidateQuerySafety(r)
        \/ GenerateSql(r)
        \/ ExecuteConnect(r)
        \/ ExecuteRead(r)
        \/ GenerateInsights(r)
        \/ GetRelatedQuestions(r)
        \/ ValidateQuerySafety(r)
        \/ Return(r)

Spec == Init /\ [][Next]_vars

(***************************************************************************)
(* SpecClean: _clean_sql_query on every response text assembled from a few  *)
(* fragments (fences with and without a tag, stray backquotes, newlines,    *)
(* blanks, terminators, statement characters).                              *)
(***************************************************************************)
FenceSQL == <<BT, BT, BT, "S", "Q", "L">>

Fragments ==
    { Fence, FenceSql, FenceSQL, <<BT>>, <<NL>>, <<" ">>, Semi, <<"x">>,
      <<"i", "t", "e">> }

\* the model's response grows by one fragment
AppendFragment(f) ==
    /\ phase = "build"
    /\ nparts < MaxParts
    /\ text' = text \o f
    /\ nparts' = nparts + 1
    /\ UNCHANGED <<out, out2, phase, svcVars, auxVars>>

\* a direct call of _clean_sql_query(text), as the unit test makes it
CleanSqlQuery ==
    /\ phase = "build"
    /\ out' = clean_sql_query(text)
    /\ phase' = "cleaned"
    /\ UNCHANGED <<text, nparts, out2, svcVars, auxVars>>

\* the post-processing generate_sql applies to response.text
GenerateSqlText ==
    /\ phase = "build"
    /\ out' = generate_sql_text(text)
    /\ phase' = "generated"
    /\ UNCHANGED <<text, nparts, out2, svcVars, auxVars>>

\* _clean_sql_query applied to what _clean_sql_query returned
CleanAgain ==
    /\ phase = "cleaned"
    /\ out2' = clean_sql_query(out)
    /\ phase' = "again"
    /\ UNCHANGED <<text, nparts, out, svcVars, auxVars>>

NextClean ==
    \/ \E f \in Fragments : AppendFragment(f)
    \/ CleanSqlQuery
    \/ CleanAgain
    \/ GenerateSqlText

SpecClean == Init /\ [][NextClean]_vars

(***************************************************************************)
(* SpecSafe: validate_query_safety on statements assembled from keywords   *)
(* in several casings, halves of keywords, an identifier tail, a quote.    *)
(***************************************************************************)
Words ==
    { <<"D", "R", "O", "P">>, <<"d", "r", "o">>, <<"p">>,
      <<"d", "e", "l">>, <<"e", "t", "e">>,
      <<"U", "p", "D", "a", "T", "e">>, <<"i", "n", "s", "e", "r", "t">>,
      <<"A", "L", "T", "E", "R">>, <<"c", "r", "e", "a", "t", "e">>,
      <<"d", "_", "a", "t">>, <<"s", "e", "l", "e", "c", "t">>,
      <<" ">>, <<"'">> }

\* the statement grows by one word
AppendWord(w) ==
    /\ phase = "build"
    /\ nparts < MaxWords
    /\ text' = text \o w
    /\ nparts' = nparts + 1
    /\ UNCHANGED <<out, out2, phase, svcVars, auxVars>>

\* analytics.validate_query_safety(text)
CheckSafety ==
    /\ phase = "build"
    /\ out' = validate_query_safety(text)
    /\ phase' = "checked"
    /\ UNCHANGED <<text, nparts, out2, svcVars, auxVars>>

NextSafe ==
    \/ \E w \in Words : AppendWord(w)
    \/ CheckSafety

SpecSafe == Init /\ [][NextSafe]_vars

(***************************************************************************)
(* SpecLines: get_related_questions on response texts assembled from lines: *)
(* plain, padded, blank, numbered, bulleted, with and without line break.  *)
(***************************************************************************)
MaxLines == 6        \* line fragments in one response text

LineFragments ==
    { <<"a", NL>>, <<NL, " ", "b", " ">>, <<NL>>, <<" ">>,
      <<"1", ".", " ", "a", NL>>, <<"-", " ", "c", NL>> }

AppendLine(f) ==
    /\ phase = "build"
    /\ nparts < MaxLines
    /\ text' = text \o f
    /\ nparts' = nparts + 1
    /\ UNCHANGED <<out, out2, phase, svcVars, auxVars>>

\* get_related_questions when the model answered with `text`
ParseRelatedQuestions ==
    /\ phase = "build"
    /\ out' = get_related_questions([kind |-> "text", text |-> text]).value
    /\ phase' = "parsed"
    /\ UNCHANGED <<text, nparts, out2, svcVars, auxVars>>

NextLines ==
    \/ \E f \in LineFragments : AppendLine(f)
    \/ ParseRelatedQuestions

SpecLines == Init /\ [][NextLines]_vars

(***************************************************************************)
(* SpecDigest: _prepare_results_summary on tables assembled column by      *)
(* column and row by row.                                                  *)
(***************************************************************************)
MaxRows == 6         \* rows of an assembled table

\* a column: its name and the dtype pandas gave it
ColumnKinds ==
    { <<"name", "object">>, <<"revenue", "int64">>, <<"rating", "float64">>,
      <<"is_open", "bool">> }

AddColumn(c) ==
    /\ phase = "build"
    /\ table.rows = <<>>
    /\ Len(table.columns) < Cardinality(ColumnKinds) - 1
    /\ table' = [table EXCEPT !.columns = Append(@, c[1]), !.dtypes = Append(@, c[2])]
    /\ UNCHANGED <<textVars, svcVars, reviews, order, session_state, widgets,
                   env_file, launcher>>

\* a row: one value per column, v tells the rows apart
AddRow(v) ==
    /\ phase = "build"
    /\ Len(table.columns) > 0
    /\ Len(table.rows) < MaxRows
    /\ table' = [table EXCEPT !.rows = Append(@, [j \in 1..Len(table.columns) |-> v + j])]
    /\ UNCHANGED <<textVars, svcVars, reviews, order, session_state, widgets,
                   env_file, launcher>>

\* self._prepare_results_summary(results)
PrepareResultsSummary ==
    /\ phase = "build"
    /\ Len(table.columns) > 0
    /\ out' = prepare_results_summary(table)
    /\ phase' = "digest"
    /\ UNCHANGED <<text, nparts, out2, svcVars, auxVars>>

NextDigest ==
    \/ \E c \in ColumnKinds : AddColumn(c)
    \/ \E v \in {10, 20} : AddRow(v)
    \/ PrepareResultsSummary

SpecDigest == Init /\ [][NextDigest]_vars

(***************************************************************************)
(* SpecReviews: RestaurantDataGenerator.generate_reviews.                  *)
(***************************************************************************)
MaxReviews == 2      \* reviews generated in one behaviour

\* random.choices([1, 2, 3, 4, 5], weights=...)[0]
OverallRatings == 1..5

\* random.randint(-1, 1)
RatingOffsets == -1..1

\* max(1, overall_rating + random.randint(-1, 1)), lines 246-248
part_rating(overall_rating, offset) ==
    IF overall_rating + offset < 1 THEN 1 ELSE overall_rating + offset

\* one pass of the loop of generate_reviews, lines 235-252
GenerateReview ==
    /\ Len(reviews) < MaxReviews
    /\ \E overall_rating \in OverallRatings, f, s, a \in RatingOffsets :
        reviews' = Append(reviews,
            [ rating          |-> overall_rating,
              food_rating     |-> part_rating(overall_rating, f),
              service_rating  |-> part_rating(overall_rating, s),
              ambiance_rating |-> part_rating(overall_rating, a) ])
    /\ UNCHANGED <<textVars, svcVars, table, order, session_state, widgets,
                   env_file, launcher>>

NextReviews == GenerateReview

SpecReviews == Init /\ [][NextReviews]_vars

(***************************************************************************)
(* SpecOrders: RestaurantDataGenerator.generate_orders.                    *)
(* Money is counted in hundredths of a cent, so that a price in cents is a *)
(* multiple of 100 and the error of a floating point sum is a few units.   *)
(***************************************************************************)
Cent == 100

\* restaurant.id of the restaurants generate_restaurants made
RestaurantIds == {1, 2}

\* the menu generate_menu_items made: every restaurant has items, every price
\* is round(base_price * price_multiplier, 2), a positive number of cents
MenuItems ==
    << [id |-> 1, restaurant_id |-> 1, price |-> 239 * Cent],
       [id |-> 2, restaurant_id |-> 1, price |-> 4289 * Cent],
       [id |-> 3, restaurant_id |-> 2, price |-> 1299 * Cent],
       [id |-> 4, restaurant_id |-> 2, price |-> 799 * Cent] >>

\* variant: an item is drawn from the menus of all restaurants
restaurant_menu_all(menu_items, restaurant_id) ==
    { i \in 1..Len(menu_items) : TRUE }

\* line 172: [item for item in menu_items if item.restaurant_id == restaurant.id]
restaurant_menu(menu_items, restaurant_id) ==
    { i \in 1..Len(menu_items) : menu_items[i].restaurant_id = restaurant_id }

\* random.randint(1, 5), line 173
ItemCounts == 1..5

\* random.randint(1, 3), line 178
Quantities == 1..3

\* what a sum of floats can differ from the sum of the numbers by
FloatErrors == -2..2

\* round(x, 2): the nearest whole number of cents
round_cents(x) == ((x + Cent \div 2) \div Cent) * Cent

\* lines 150-169: a new order, total_amount=0 until its items are added
CreateOrder(restaurant_id, num_items) ==
    /\ order.state \in {"none", "done"}
    /\ restaurant_menu(MenuItems, restaurant_id) # {}
    /\ order' = [ state |-> "open", restaurant_id |-> restaurant_id,
                  num_items |-> num_items, items |-> <<>>, total |-> 0,
                  total_amount |-> 0 ]
    /\ UNCHANGED <<textVars, svcVars, table, reviews, session_state, widgets,
                   env_file, launcher>>

\* lines 176-191: one pass of the loop over the items of the order
AddOrderItem(i, quantity) ==
    /\ order.state = "open"
    /\ Len(order.items) < order.num_items
    /\ i \in restaurant_menu(MenuItems, order.restaurant_id)
    /\ LET menu_item == MenuItems[i]
           unit_price == menu_item.price
           total_price == unit_price * quantity
       IN  order' = [order EXCEPT
                !.items = Append(@, [ menu_item_id |-> menu_item.id,
                                      quantity |-> quantity,
                                      unit_price |-> unit_price,
                                      total_price |-> total_price ]),
                !.total = @ + total_price]
    /\ UNCHANGED <<textVars, svcVars, table, reviews, session_state, widgets,
                   env_file, launcher>>

\* lines 193-194: order.total_amount = round(total_amount, 2)
FinishOrder(e) ==
    /\ order.state = "open"
    /\ Len(order.items) = order.num_items
    /\ order' = [order EXCEPT !.total_amount = round_cents(order.total + e),
                              !.state = "done"]
    /\ UNCHANGED <<textVars, svcVars, table, reviews, session_state, widgets,
                   env_file, launcher>>

NextOrders ==
    \/ \E r \in RestaurantIds, n \in ItemCounts : CreateOrder(r, n)
    \/ \E i \in 1..Len(MenuItems), q \in Quantities : AddOrderItem(i, q)
    \/ \E e \in FloatErrors : FinishOrder(e)

SpecOrders == Init /\ [][NextOrders]_vars

(***************************************************************************)
(* SpecUI: the dashboard of app.py.  Streamlit runs the script from the    *)
(* top on every user event and on st.rerun(); one action is one run.       *)
(* A widget without key is the same widget as in the last run when it was  *)
(* rendered there with the same parameters: then it keeps what the user    *)
(* put in; otherwise it is new and shows its default.  A button returns    *)
(* True only in the run its click triggered.                               *)
(***************************************************************************)
Pages ==
    <<"Analytics Dashboard", "Natural Language Query", "Sample Questions",
      "Database Explorer">>

QUERY_PAGE  == "Natural Language Query"
SAMPLE_PAGE == "Sample Questions"

\* [...].index(st.session_state.page), line 279
PageIndex(p) == CHOOSE i \in 1..Len(Pages) : Pages[i] = p

\* sample_questions of show_sample_questions
SampleQuestions ==
    { "What are the top 5 best-selling menu items this month?",
      "Show me the revenue trend for the last 30 days",
      "Which cuisine type has the highest average rating?",
      "What's the busiest day of the week?",
      "How many orders did we receive yesterday?",
      "Which restaurant has the most loyal customers?",
      "What's the average order value by cuisine type?",
      "Show me customer reviews with ratings below 3",
      "Which menu items have the highest profit margins?",
      "What are the peak hours for orders?" }

\* what the user types into the query input
TypedQueries == {"how many orders?", "top restaurants by revenue", "Which day is slowest?"}

\* what analytics.get_related_questions returned in the Analyze branch
RelatedLists ==
    { <<"Which items sell best?", "Which day is slowest?">>, <<"Which hour is busiest?">>, <<>> }

\* lines 372-409: the analysis raised, or gave its related questions
AnalysisOutcomes ==
    { [kind |-> "raise", related |-> <<>>] }
    \cup { [kind |-> "ok", related |-> l] : l \in RelatedLists }

NoAnalysis == [kind |-> "none", related |-> <<>>]

\* 'key' in st.session_state and st.session_state.key
Truthy(v) == v \notin {Absent, ""}

\* st.button(...): True in the run that the click on this button triggered
button_clicked(ev, kind, arg) == ev.kind = kind /\ ev.arg = arg

\* variant: the sample question is taken before the related question
prefill_selected_first(ss) ==
    IF Truthy(ss.selected_question)
    THEN [ default_query |-> ss.selected_question,
           session |-> [ss EXCEPT !.selected_question = ""] ]
    ELSE IF Truthy(ss.query_input)
    THEN [ default_query |-> ss.query_input,
           session |-> [ss EXCEPT !.query_input = ""] ]
    ELSE [default_query |-> "", session |-> ss]

\* show_query_interface, lines 351-358: the pre-filled question
prefill(ss) ==
    IF Truthy(ss.query_input)
    THEN [ default_query |-> ss.query_input,
           session |-> [ss EXCEPT !.query_input = ""] ]
    ELSE IF Truthy(ss.selected_question)
    THEN [ default_query |-> ss.selected_question,
           session |-> [ss EXCEPT !.selected_question = ""] ]
    ELSE [default_query |-> "", session |-> ss]

\* main, lines 257-263: the page before the sidebar is drawn
page_before_sidebar(ss) ==
    LET s1 == IF ss.page = Absent THEN [ss EXCEPT !.page = Pages[1]] ELSE ss
    IN  IF Truthy(s1.selected_question) THEN [s1 EXCEPT !.page = QUERY_PAGE] ELSE s1

\* st.sidebar.selectbox(..., index=...), lines 276-280
selectbox(w, ev, index) ==
    IF w.select_index = index
    THEN (IF ev.kind = "select" THEN ev.arg ELSE w.select_value)
    ELSE Pages[index]

\* st.text_input(..., value=default_query), lines 361-365
text_input(w, ev, default_query) ==
    IF w.input_shown /\ w.input_default = default_query
    THEN (IF ev.kind = "type" THEN ev.arg ELSE w.input_value)
    ELSE default_query

\* the related question whose button reports a click, lines 415-418
related_clicked(ev, related_questions) ==
    { q \in Range(related_questions) : button_clicked(ev, "related", q) }

\* one run of main(), lines 255-295, with what it calls: the session state
\* and the rendered widgets after it
script_run(ss, w, ev, analysis) ==
    LET s2    == page_before_sidebar(ss)
        index == PageIndex(s2.page)
        page  == selectbox(w, ev, index)
        s3    == IF page # s2.page THEN [s2 EXCEPT !.page = page] ELSE s2
        base  == [ shown |-> s3.page, select_index |-> index, select_value |-> page,
                   input_shown |-> FALSE, input_default |-> "", input_value |-> "",
                   related_buttons |-> <<>>, sample_buttons |-> FALSE,
                   message |-> "", rerun |-> FALSE,
                   click |-> IF ev.kind = "rerun" THEN w.click ELSE ev ]
    IN  IF s3.page = QUERY_PAGE
        THEN \* show_query_interface
            LET pre        == prefill(s3)
                user_query == text_input(w, ev, pre.default_query)
                analyze    == button_clicked(ev, "analyze", "")
                shown_related ==
                    IF analyze /\ user_query # "" /\ analysis.kind = "ok"
                    THEN analysis.related ELSE <<>>
                clicked    == related_clicked(ev, shown_related)
                input      == [base EXCEPT !.input_shown = TRUE,
                                           !.input_default = pre.default_query,
                                           !.input_value = user_query,
                                           !.related_buttons = shown_related]
            IN  IF clicked # {}
                THEN [ session |-> [pre.session EXCEPT
                                        !.query_input = CHOOSE q \in clicked : TRUE],
                       widgets |-> [input EXCEPT !.rerun = TRUE] ]
                ELSE [ session |-> pre.session,
                       widgets |-> [input EXCEPT !.message =
                            IF ~analyze THEN ""
                            ELSE IF user_query = "" THEN "Please enter a question to analyze."
                            ELSE IF analysis.kind = "ok" THEN "results"
                            ELSE "Error processing query"] ]
        ELSE IF s3.page = SAMPLE_PAGE
        THEN \* show_sample_questions
            IF ev.kind = "try"
            THEN [ session |-> [s3 EXCEPT !.selected_question = ev.arg,
                                          !.page = QUERY_PAGE],
                   widgets |-> [base EXCEPT !.sample_buttons = TRUE, !.rerun = TRUE] ]
            ELSE [ session |-> s3, widgets |-> [base EXCEPT !.sample_buttons = TRUE] ]
        ELSE [session |-> s3, widgets |-> base]

ScriptRun(ev, analysis) ==
    LET after == script_run(session_state, widgets, ev, analysis)
    IN  /\ session_state' = after.session
        /\ widgets' = after.widgets
        /\ UNCHANGED <<textVars, svcVars, table, reviews, order, env_file, launcher>>

\* the page is ready for the user: it was rendered and no rerun is pending
Idle == widgets.shown # "none" /\ ~widgets.rerun

\* the browser opens the dashboard
OpenDashboard ==
    /\ widgets.shown = "none"
    /\ ScriptRun([kind |-> "open", arg |-> ""], NoAnalysis)

\* the user picks a page in the sidebar
SelectPage(p) ==
    /\ Idle
    /\ p # widgets.select_value
    /\ ScriptRun([kind |-> "select", arg |-> p], NoAnalysis)

\* the user changes the text of the query input
TypeQuery(t) ==
    /\ Idle
    /\ widgets.input_shown
    /\ t # widgets.input_value
    /\ ScriptRun([kind |-> "type", arg |-> t], NoAnalysis)

\* the user clicks Analyze
ClickAnalyze(analysis) ==
    /\ Idle
    /\ widgets.input_shown
    /\ ScriptRun([kind |-> "analyze", arg |-> ""], analysis)

\* the user clicks "Try it!" next to a sample question
ClickTryIt(q) ==
    /\ Idle
    /\ widgets.sample_buttons
    /\ ScriptRun([kind |-> "try", arg |-> q], NoAnalysis)

\* the user clicks the button of a related question
ClickRelated(q) ==
    /\ Idle
    /\ q \in Range(widgets.related_buttons)
    /\ ScriptRun([kind |-> "related", arg |-> q], NoAnalysis)

\* st.rerun(): the script runs again, no widget reports an event
Rerun ==
    /\ widgets.rerun
    /\ ScriptRun([kind |-> "rerun", arg |-> ""], NoAnalysis)

NextUI ==
    \/ OpenDashboard
    \/ \E p \in Range(Pages) : SelectPage(p)
    \/ \E t \in TypedQueries \cup {""} : TypeQuery(t)
    \/ \E a \in AnalysisOutcomes : ClickAnalyze(a)
    \/ \E q \in SampleQuestions : ClickTryIt(q)
    \/ \E l \in RelatedLists : \E q \in Range(l) : ClickRelated(q)
    \/ Rerun

SpecUI == Init /\ [][NextUI]_vars

(***************************************************************************)
(* SpecEnv: the launcher run.py and the configuration loader config.py.    *)
(* A line of .env is a sequence of pieces: the parts of the variable name,  *)
(* "=" and the value.  The launcher searches the file's text; the loader   *)
(* reads the variable by its exact name.                                   *)
(***************************************************************************)
PLACEHOLDER == "your_google_ai_api_key_here"

\* the name Config reads (config.py line 13)
CONFIG_KEY_NAME == <<"GOOGLE_", "AI_", "API_KEY">>

\* the text check_env_file searches for (run.py line 53)
CHECKED_TEXT == <<"GOOGLE_", "API_KEY", "=">>

\* lines a user may put into .env
EnvLines ==
    { CONFIG_KEY_NAME \o <<"=", "AIzaSy-real-key">>,
      CONFIG_KEY_NAME \o <<"=", PLACEHOLDER>>,
      CONFIG_KEY_NAME \o <<"=">>,
      <<"GOOGLE_", "API_KEY", "=", "AIzaSy-real-key">>,
      <<"MODEL_NAME", "=", "gemini-1.5-pro">> }

MaxEnvLines == 2

\* f.read(): the lines, each ended by a newline
RECURSIVE file_content(_)
file_content(lines) ==
    IF lines = <<>> THEN <<>>
    ELSE Head(lines) \o <<"\n">> \o file_content(Tail(lines))

\* position of "=" in a line
EqualsAt(line) == CHOOSE i \in 1..Len(line) : line[i] = "=" /\ \A j \in 1..(i - 1) : line[j] # "="

\* load_dotenv() then os.getenv(name): the value of the last assignment
getenv(lines, name) ==
    LET at == { i \in 1..Len(lines) : SubSeq(lines[i], 1, EqualsAt(lines[i]) - 1) = name }
    IN  IF at = {} THEN None
        ELSE LET i == CHOOSE k \in at : \A j \in at : j <= k
             IN  SubSeq(lines[i], EqualsAt(lines[i]) + 1, Len(lines[i]))

\* Config.GOOGLE_API_KEY, config.py lines 5 and 13
GOOGLE_API_KEY(f) == IF f.exists THEN getenv(f.lines, CONFIG_KEY_NAME) ELSE None

\* Config.validate_config: `if not cls.GOOGLE_API_KEY: raise ValueError`
validate_config(key) == IF key = None \/ key = <<>> THEN "ValueError" ELSE "ok"

\* run.py check_env_file
check_env_file(f) ==
    IF ~f.exists THEN FALSE
    ELSE LET content == file_content(f.lines)
         IN  IF ~Contains(content, CHECKED_TEXT) \/ Contains(content, <<PLACEHOLDER>>)
             THEN FALSE
             ELSE TRUE

Modes == {"dashboard", "api", "both", "init"}

\* the user creates .env
CreateEnvFile ==
    /\ launcher.state = "idle"
    /\ ~env_file.exists
    /\ env_file' = [exists |-> TRUE, lines |-> <<>>]
    /\ UNCHANGED <<textVars, svcVars, table, reviews, order, session_state, widgets, launcher>>

\* the user adds a line to .env
AppendEnvLine(l) ==
    /\ launcher.state = "idle"
    /\ env_file.exists
    /\ Len(env_file.lines) < MaxEnvLines
    /\ env_file' = [env_file EXCEPT !.lines = Append(@, l)]
    /\ UNCHANGED <<textVars, svcVars, table, reviews, order, session_state, widgets, launcher>>

\* python run.py [--mode m] [--check] [--skip-checks], main lines 154-190
RunLauncher(mode, check, skip_checks, deps_ok) ==
    /\ launcher.state = "idle"
    /\ LET args == [launcher EXCEPT !.mode = mode, !.check = check,
                                    !.skip_checks = skip_checks, !.deps_ok = deps_ok]
       IN  launcher' =
            IF ~skip_checks /\ ~deps_ok
            THEN [args EXCEPT !.state = "exited", !.exit = 1]
            ELSE IF ~skip_checks /\ ~check_env_file(env_file)
            THEN [args EXCEPT !.state = "exited", !.env_check = "failed", !.exit = 1]
            ELSE LET checked == [args EXCEPT !.env_check =
                                    IF skip_checks THEN "skipped" ELSE "passed"]
                 IN  IF check THEN [checked EXCEPT !.state = "exited", !.exit = 0]
                     ELSE [checked EXCEPT !.state = "started"]
    /\ UNCHANGED <<textVars, svcVars, table, reviews, order, session_state, widgets, env_file>>

\* the started mode imports config: load_dotenv(), Config, validate_config
ImportConfig ==
    /\ launcher.state = "started"
    /\ launcher' = [launcher EXCEPT !.state = "configured",
                                    !.key = GOOGLE_API_KEY(env_file),
                                    !.config = validate_config(GOOGLE_API_KEY(env_file))]
    /\ UNCHANGED <<textVars, svcVars, table, reviews, order, session_state, widgets, env_file>>

NextEnv ==
    \/ CreateEnvFile
    \/ \E l \in EnvLines : AppendEnvLine(l)
    \/ \E mode \in Modes, check \in BOOLEAN, skip_checks \in BOOLEAN, deps_ok \in BOOLEAN :
            RunLauncher(mode, check, skip_checks, deps_ok)
    \/ ImportConfig

SpecEnv == Init /\ [][NextEnv]_vars

(***************************************************************************)
(* Properties.                                                             *)
(***************************************************************************)
IsPrefix(a, b) == Len(a) <= Len(b) /\ SubSeq(b, 1, Len(a)) = a

GEN == "generate_sql"
EXE == "execute_sql"
INS == "generate_insights"
REL == "get_related_questions"
GATE == "validate_query_safety"

\* C1: whenever execute_sql is not between its connect and the end of its read,
\* the connection it opened is closed: a call that has returned or raised holds
\* no open connection.
C1_ConnectionClosedOnExit ==
    \A r \in Requests : pc[r] # "reading" => conn[r] # "open"

RunSuccess ==
    <<Call(ANSWER), Call(GEN), Ret(GEN), Call(EXE), Ret(EXE), Call(INS), Ret(INS),
      Ret(ANSWER)>>
RunGenerateFails == <<Call(ANSWER), Call(GEN), Raise(GEN), Raise(ANSWER)>>
RunExecuteFails ==
    <<Call(ANSWER), Call(GEN), Ret(GEN), Call(EXE), Raise(EXE), Raise(ANSWER)>>

\* C2: a call of process_natural_language_query runs generate_sql, execute_sql,
\* generate_insights in this order, each once and each after the one before it
\* has returned; when generate_sql raises nothing else is invoked, when
\* execute_sql raises generate_insights is not invoked, and in both cases the
\* exception leaves the call and no triple is returned.
C2_StagesInOrder ==
    \A r \in Requests : op[r] = ANSWER =>
        /\ \E run \in {RunSuccess, RunGenerateFails, RunExecuteFails} :
                IsPrefix(log[r], run)
        /\ pc[r] = "returned" => log[r] = RunSuccess
        /\ pc[r] = "raised" =>
                /\ log[r] \in {RunGenerateFails, RunExecuteFails}
                /\ error[r] # NoText
                /\ insights[r] = NoText
        /\ log[r] = RunGenerateFails =>
                submitted[r] = <<>> /\ conn[r] = "none" /\ Len(llm_calls[r]) = 1

C2_Witness ==
    \E r1, r2 \in Requests :
        /\ op[r1] = ANSWER /\ pc[r1] = "returned" /\ log[r1] = RunSuccess
        /\ op[r2] = ANSWER /\ pc[r2] = "raised" /\ log[r2] = RunExecuteFails
        /\ submitted[r2] = <<sql_query[r2]>>

\* C3: generate_insights never raises; when building the digest or the call of
\* the model fails it returns "Error generating insights: " followed by the
\* failure message; so once generate_sql and execute_sql have succeeded,
\* process_natural_language_query returns the generated statement and the
\* table of the executor whatever the narration did.
C3_InsightsNeverRaise ==
    \A r \in Requests :
        /\ Raise(INS) \notin Range(log[r])
        /\ (Ret(INS) \in Range(log[r]) /\ Call(REL) \notin Range(log[r])
                /\ ext_fail[r] # NoText) =>
                insights[r] = <<"Error generating insights: ">> \o ext_fail[r]
        /\ (op[r] = ANSWER /\ Call(INS) \in Range(log[r])) =>
                /\ pc[r] = "returned"
                /\ error[r] = NoText
                /\ sql_query[r] \in Statements
                /\ submitted[r] = <<sql_query[r]>>
                /\ results[r] \in Tables

C3_Witness ==
    \E r \in Requests :
        /\ op[r] = ANSWER /\ pc[r] = "returned"
        /\ results[r] = TableTwo
        /\ insights[r] = <<"Error generating insights: ", "API Error">>

\* C4: the list get_related_questions returns has at least one element, for
\* every outcome of the call of the model.
C4_SuggestionsNonEmpty ==
    \A r \in Requests :
        (op[r] = REL /\ pc[r] = "returned") => Len(related[r]) >= 1

Sanitized == phase \in {"cleaned", "generated"}

\* the number of terminators at the very end of s
RECURSIVE TrailingSemis(_)
TrailingSemis(s) ==
    IF s # <<>> /\ s[Len(s)] = ";"
    THEN 1 + TrailingSemis(SubSeq(s, 1, Len(s) - 1))
    ELSE 0

CountSemis(s) == Cardinality({ i \in 1..Len(s) : s[i] = ";" })

Terminated(body) ==
    LET b == Strip(body) IN IF EndsWith(b, Semi) THEN b ELSE b \o Semi

FenceTags ==
    { <<>>, <<"s", "q", "l">>, <<"S", "Q", "L">>,
      <<"s", "q", "l", "i", "t", "e">> }

WrappedBodies == { <<"x">>, <<"x", ";">>, <<" ", "x">>, <<"x", " ">>, <<>> }

\* C6: for a response that is a statement wrapped in a fence, with no tag, the
\* tag sql or another tag, the sanitized statement is the enclosed statement,
\* trimmed and terminated.
C6_FenceAndTagStripped ==
    Sanitized =>
        \A tag \in FenceTags, body \in WrappedBodies :
            text = Fence \o tag \o <<NL>> \o body \o <<NL>> \o Fence
                => out = Terminated(body)

\* C7: the sanitized statement is not empty, holds no run of three backquotes,
\* does not start with whitespace and ends with the terminator.
C7_StatementInvariant ==
    Sanitized =>
        /\ out # <<>>
        /\ \A i \in 1..Len(out) : ~MatchAt(out, i, Fence)
        /\ ~IsSpace(out[1])
        /\ EndsWith(out, Semi)

C7_Witness ==
    /\ phase = "cleaned"
    /\ text = <<" ">> \o Fence \o <<NL>> \o Fence
    /\ out = Semi

C8_Keywords ==
    { <<"d", "r", "o", "p">>, <<"d", "e", "l", "e", "t", "e">>,
      <<"u", "p", "d", "a", "t", "e">>, <<"i", "n", "s", "e", "r", "t">>,
      <<"a", "l", "t", "e", "r">>, <<"c", "r", "e", "a", "t", "e">> }

\* keyword k stands at position i of s, in whatever casing
KeywordAt(s, i, k) ==
    /\ i + Len(k) - 1 <= Len(s)
    /\ \A j \in 1..Len(k) : LowerChar(s[i + j - 1]) = k[j]

\* C8: validate_query_safety returns false exactly when one of drop, delete,
\* update, insert, alter, create occurs in the statement, in any casing and at
\* any position, also inside an identifier or a string literal.
C8_UnsafeIffKeyword ==
    phase = "checked" =>
        (out = FALSE <=> \E k \in C8_Keywords, i \in 1..Len(text) : KeywordAt(text, i, k))

C8_Witness ==
    /\ phase = "checked"
    /\ text = <<"c", "r", "e", "a", "t", "e">> \o <<"d", "_", "a", "t">>
    /\ out = FALSE

\* C9: process_natural_language_query never calls validate_query_safety: every
\* statement generate_sql returned, also one the gate would reject, goes to
\* execute_sql and is the statement submitted to the store; the gate runs only
\* when a caller calls it.
C9_GateNotOnDefaultPath ==
    \A r \in Requests :
        /\ Call(GATE) \in Range(log[r]) => op[r] = GATE
        /\ op[r] = ANSWER =>
            /\ Ret(GEN) \in Range(log[r]) =>
                    \/ pc[r] \in {"execute", "reading", "insights", "returned"}
                    \/ pc[r] = "raised" /\ Raise(EXE) \in Range(log[r])
            /\ pc[r] \in {"insights", "returned"} => submitted[r] = <<sql_query[r]>>

C9_Witness ==
    \E r \in Requests :
        /\ op[r] = ANSWER /\ pc[r] = "returned"
        /\ sql_query[r] = StmtDrop
        /\ ~validate_query_safety(sql_query[r])
        /\ submitted[r] = <<StmtDrop>>

\* C10: when the call of the model, or reading its text, fails in generate_sql,
\* generate_sql returns no statement and raises "Error generating SQL: "
\* followed by the message of the failure; process_natural_language_query
\* lets that exception through to its caller.
C10_GenerationFailureTagged ==
    \A r \in Requests :
        Raise(GEN) \in Range(log[r]) =>
            /\ ext_fail[r] # NoText
            /\ sql_query[r] = NoText
            /\ op[r] # API =>
                    /\ pc[r] = "raised"
                    /\ error[r] = <<"Error generating SQL: ">> \o ext_fail[r]
            /\ op[r] = API =>
                    response[r].error = <<"Error generating SQL: ">> \o ext_fail[r]
            /\ op[r] = ANSWER => log[r][Len(log[r])] = Raise(ANSWER)
            /\ op[r] \in {ANSWER, API} =>
                    /\ Raise(ANSWER) \in Range(log[r])
                    /\ Call(EXE) \notin Range(log[r])

C10_Witness ==
    \E r \in Requests :
        /\ op[r] = ANSWER /\ pc[r] = "raised"
        /\ error[r] = <<"Error generating SQL: ", "response.text requires a valid Part">>
        /\ log[r] = RunGenerateFails

\* the replies of dependency `dep` to the requests of call r, in order
RECURSIVE RepliesOf(_, _)
RepliesOf(replies, dep) ==
    IF replies = <<>> THEN <<>>
    ELSE (IF Head(replies).dep = dep THEN <<Head(replies)>> ELSE <<>>)
         \o RepliesOf(Tail(replies), dep)

LastReply(r) == ext_replies[r][Len(ext_replies[r])]

\* C11: when the store (or opening it) fails, execute_sql returns no table and
\* raises "Error executing SQL: " followed by the message of the failure as the
\* store gave it; the statement the store was given is the statement
\* execute_sql received; process_natural_language_query lets the exception
\* through to its caller and does not go on to the narration.
C11_ExecutionFailureTagged ==
    \A r \in Requests :
        Raise(EXE) \in Range(log[r]) =>
            /\ LastReply(r).dep \in {"connect", "store"}
            /\ LastReply(r).outcome.kind = "raise"
            /\ results[r] = NoTable
            /\ op[r] # API =>
                /\ pc[r] = "raised"
                /\ error[r] = <<"Error executing SQL: ">> \o LastReply(r).outcome.msg
            /\ op[r] = API =>
                response[r].error = <<"Error executing SQL: ">> \o LastReply(r).outcome.msg
            /\ LastReply(r).dep = "store" =>
                /\ LastReply(r).request = sql_query[r]
                /\ submitted[r] = <<sql_query[r]>>
            /\ LastReply(r).dep = "connect" => submitted[r] = <<>>
            /\ op[r] = ANSWER => log[r] = RunExecuteFails
            /\ op[r] \in {ANSWER, API} =>
                /\ Raise(ANSWER) \in Range(log[r])
                /\ Call(INS) \notin Range(log[r])

C11_Witness ==
    \E r \in Requests :
        /\ op[r] = ANSWER /\ pc[r] = "raised"
        /\ log[r] = RunExecuteFails
        /\ sql_query[r] = StmtDrop
        /\ submitted[r] = <<StmtDrop>>
        /\ error[r] = <<"Error executing SQL: ", "no such table: t">>

\* C12: generate_insights on a table with zero rows returns the literal
\* "No data found for the given query." and sends no prompt to the model,
\* whatever the question.
C12_EmptyTableNoNarration ==
    \A r \in Requests :
        (Ret(INS) \in Range(log[r]) /\ Len(results[r].rows) = 0) =>
            /\ insights[r] = <<"No data found for the given query.">>
            /\ \A i \in 1..Len(llm_calls[r]) : llm_calls[r][i].kind # "insights"
            /\ op[r] = INS => ext_replies[r] = <<>>

C12_Witness ==
    \E r1, r2 \in Requests :
        /\ op[r1] = INS /\ pc[r1] = "returned" /\ results[r1] = TableEmpty
        /\ insights[r1] = <<"No data found for the given query.">>
        /\ llm_calls[r1] = <<>>
        /\ op[r2] = INS /\ pc[r2] = "returned" /\ results[r2] = TableEmpty
        /\ question[r1] # question[r2]

\* C13: get_related_questions never raises; when the call of the model (or
\* reading its text) raised, it returns the five predefined questions, in
\* their order, for every question and table.
C13_SuggestionsFallBack ==
    \A r \in Requests :
        /\ Raise(REL) \notin Range(log[r])
        /\ (Ret(REL) \in Range(log[r]) /\ LastReply(r).outcome.kind # "text") =>
            /\ related[r] =
                << <<"What are the top-performing menu items by revenue?">>,
                   <<"How do customer ratings vary by cuisine type?">>,
                   <<"What are the peak ordering hours?">>,
                   <<"Which restaurants have the highest customer retention?">>,
                   <<"What's the average order value by customer age group?">> >>
            /\ op[r] = REL => pc[r] = "returned" /\ error[r] = NoText

C13_Witness ==
    \E r1, r2 \in Requests :
        /\ op[r1] = REL /\ pc[r1] = "returned" /\ results[r1] = TableTwo
        /\ LastReply(r1).outcome.kind = "raise"
        /\ Len(related[r1]) = 5
        /\ related[r1][1] = <<"What are the top-performing menu items by revenue?">>
        /\ op[r2] = REL /\ pc[r2] = "returned" /\ results[r2] = TableEmpty
        /\ LastReply(r2).outcome.kind = "notext"
        /\ related[r2] = related[r1]
        /\ question[r1] # question[r2]

\* C16: a statement without a fence, without surrounding whitespace and with
\* the terminator at its end is returned unchanged by _clean_sql_query, and
\* cleaning the result again changes nothing.
CleanStatement(s) ==
    /\ \A i \in 1..Len(s) - 2 : ~(s[i] = BT /\ s[i + 1] = BT /\ s[i + 2] = BT)
    /\ Len(s) > 0
    /\ ~IsSpace(s[1]) /\ ~IsSpace(s[Len(s)])
    /\ s[Len(s)] = ";"

C16_CleanIsFixedPoint ==
    (phase \in {"cleaned", "again"} /\ CleanStatement(text)) =>
        /\ out = text
        /\ phase = "again" => out2 = out

C16_Witness ==
    /\ phase = "again"
    /\ text = <<"i", "t", "e", BT, ";">>
    /\ out2 = text

\* the position of the k-th line break of s
BreakAt(s, k) ==
    CHOOSE i \in 1..Len(s) :
        s[i] = NL /\ Cardinality({j \in 1..i : s[j] = NL}) = k

NumBreaks(s) == Cardinality({j \in 1..Len(s) : s[j] = NL})

\* the k-th line of s, lines being what the line breaks separate
LineOf(s, k) ==
    LET from == IF k = 1 THEN 1 ELSE BreakAt(s, k - 1) + 1
        to   == IF k > NumBreaks(s) THEN Len(s) ELSE BreakAt(s, k) - 1
    IN  SubSeq(s, from, to)

\* l without the whitespace at its two ends
Trimmed(l) ==
    LET inked == {i \in 1..Len(l) : ~IsSpace(l[i])}
    IN  IF inked = {} THEN <<>>
        ELSE SubSeq(l, CHOOSE i \in inked : \A j \in inked : i <= j,
                       CHOOSE i \in inked : \A j \in inked : j <= i)

NotBlank(l) == l # <<>>

\* the lines of s that are not blank, trimmed, in the order of s
NonBlankLines(s) ==
    SelectSeq([k \in 1..NumBreaks(s) + 1 |-> Trimmed(LineOf(s, k))], NotBlank)

\* C14: when the model answered, get_related_questions returns the first
\* min(5, n) of the n non-blank lines of the answer, each trimmed, in the
\* order of the answer: never an empty string, never more than 5, duplicates
\* and leading numbering or bullets kept.
C14_FirstFiveTrimmedLines ==
    phase = "parsed" =>
        LET lines == NonBlankLines(text)
            n == Len(lines)
        IN  /\ Len(out) = IF n < 5 THEN n ELSE 5
            /\ Len(out) <= 5
            /\ \A i \in 1..Len(out) : out[i] = lines[i] /\ out[i] # <<>>

C14_Witness ==
    /\ phase = "parsed"
    /\ Len(NonBlankLines(text)) = 6
    /\ out = << <<"1", ".", " ", "a">>, <<"-", " ", "c">>, <<"a">>, <<"a">>, <<"b">> >>

\* process_natural_language_query has returned and no stage met a failure
AllStagesSucceeded(r) ==
    op[r] = ANSWER /\ pc[r] = "returned" /\ ext_fail[r] = NoText

\* the statement is the sanitized SQL answer of the model, the table is the
\* table the store returned for that statement
StatementAndTableConsistent(r) ==
    LET sql   == RepliesOf(ext_replies[r], "llm")[1]
        store == RepliesOf(ext_replies[r], "store")
    IN  /\ sql.request = create_sql_prompt(service, question[r])
        /\ sql.outcome.kind = "text"
        /\ sql_query[r] = generate_sql_text(sql.outcome.text)
        /\ CleanStatement(sql.outcome.text) => sql_query[r] = sql.outcome.text
        /\ Len(store) = 1
        /\ store[1].request = sql_query[r]
        /\ store[1].outcome.kind = "table"
        /\ results[r] = store[1].outcome.table

\* the insight is the trimmed text the model returned when asked to narrate
\* this question and this table
InsightIsNarration(r) ==
    LET llm == RepliesOf(ext_replies[r], "llm")
    IN  /\ Len(llm) = 2
        /\ llm[2].request.kind = "insights"
        /\ llm[2].request.question = question[r]
        /\ llm[2].request.summary.nrows = Len(results[r].rows)
        /\ llm[2].request.summary.sample = results[r].rows
        /\ llm[2].outcome.kind = "text"
        /\ insights[r] = Trimmed(llm[2].outcome.text)

\* C15 as stated: when all stages succeed the statement is the sanitized SQL
\* answer (the answer itself when it is already clean), the table is the one
\* the store returned for it, and the insight is the trimmed narration of the
\* model for the question and the table.
C15_TripleConsistent ==
    \A r \in Requests :
        AllStagesSucceeded(r) =>
            StatementAndTableConsistent(r) /\ InsightIsNarration(r)

\* C15, amended: the same, the insight being the narration of the model when
\* the table has rows, and the fixed literal, without a call of the model,
\* when the table is empty.
C15_TripleConsistentOrNoData ==
    \A r \in Requests :
        AllStagesSucceeded(r) =>
            /\ StatementAndTableConsistent(r)
            /\ Len(results[r].rows) > 0 => InsightIsNarration(r)
            /\ Len(results[r].rows) = 0 =>
                /\ insights[r] = <<"No data found for the given query.">>
                /\ Len(RepliesOf(ext_replies[r], "llm")) = 1

C15_Witness ==
    \E r1, r2 \in Requests :
        /\ AllStagesSucceeded(r1) /\ results[r1] = TableTwo
        /\ sql_query[r1] = StmtSelect \o Semi
        /\ RepliesOf(ext_replies[r1], "llm")[1].outcome.text # sql_query[r1]
        /\ insights[r1] = <<"r", "e", "v", "e", "n", "u", "e", " ", "u", "p">>
        /\ AllStagesSucceeded(r2) /\ results[r2] = TableTwo
        /\ RepliesOf(ext_replies[r2], "llm")[1].outcome.text = sql_query[r2]

\* how many prompts of one kind call r has sent to the model
NumPrompts(r, kind) ==
    Cardinality({i \in 1..Len(llm_calls[r]) : llm_calls[r][i].kind = kind})

Done(r, stage) == Ret(stage) \in Range(log[r]) \/ Raise(stage) \in Range(log[r])

\* what holds of every stage but execute_sql: one call of the model in
\* generate_sql and in get_related_questions, at most one in
\* generate_insights, every stage entered at most once, and so at most two
\* calls of the model and one execution in process_natural_language_query
NoRetryOutsideExecute(r) ==
    /\ NumPrompts(r, "sql") <= 1
    /\ Done(r, GEN) => NumPrompts(r, "sql") = 1
    /\ NumPrompts(r, "insights") <= 1
    /\ NumPrompts(r, "related") <= 1
    /\ Done(r, REL) => NumPrompts(r, "related") = 1
    /\ \A stage \in {GEN, EXE, INS, REL} :
            Cardinality({i \in 1..Len(log[r]) : log[r][i] = Call(stage)}) <= 1
    /\ op[r] = ANSWER => Len(llm_calls[r]) <= 2 /\ Len(submitted[r]) <= 1

\* C17 as stated: no stage retries, and execute_sql opens one connection and
\* submits the statement exactly once in every call.
C17_NoRetryExactlyOneExecution ==
    \A r \in Requests :
        /\ NoRetryOutsideExecute(r)
        /\ Done(r, EXE) =>
            /\ Len(RepliesOf(ext_replies[r], "connect")) = 1
            /\ Len(submitted[r]) = 1

\* C17, amended: no stage retries; execute_sql tries to open one connection
\* and submits the statement once when the connection opened and not at all
\* when it did not.
C17_NoRetryAtMostOneExecution ==
    \A r \in Requests :
        /\ NoRetryOutsideExecute(r)
        /\ Len(RepliesOf(ext_replies[r], "connect")) <= 1
        /\ Len(submitted[r]) <= 1
        /\ Done(r, EXE) =>
            LET connect == RepliesOf(ext_replies[r], "connect")
            IN  /\ Len(connect) = 1
                /\ Len(submitted[r]) = IF connect[1].outcome.kind = "ok" THEN 1 ELSE 0

C17_Witness ==
    \E r1, r2 \in Requests :
        /\ op[r1] = ANSWER /\ pc[r1] = "raised" /\ Raise(EXE) \in Range(log[r1])
        /\ Len(submitted[r1]) = 1 /\ Len(llm_calls[r1]) = 1
        /\ op[r2] = ANSWER /\ pc[r2] = "raised" /\ Raise(EXE) \in Range(log[r2])
        /\ Len(submitted[r2]) = 0
        /\ error[r2] = <<"Error executing SQL: ", "unable to open database file">>

\* C18: whatever calls were made and however they ended, the service holds the
\* model handle, the store path and the schema descriptor set at construction
\* and nothing else; a call that starts finds nothing of an earlier one.
C18_ServiceUnchanged ==
    /\ service = InitService
    /\ DOMAIN service = {"model", "db_path", "schema_info"}
    /\ service.schema_info = get_schema_info
    /\ \A r \in Requests :
        (op[r] \in {ANSWER, API} /\ pc[r] = "generate") =>
            /\ sql_query[r] = NoText /\ results[r] = NoTable
            /\ insights[r] = NoText /\ related[r] = <<>>

C18_Witness ==
    \E r1, r2 \in Requests :
        /\ ncalls = MaxCalls
        /\ pc[r1] = "idle"
        /\ op[r2] = ANSWER /\ pc[r2] = "generate"
        /\ service = InitService

\* the replies of the model to the prompts of one kind
RECURSIVE AnswersTo(_, _)
AnswersTo(replies, kind) ==
    IF replies = <<>> THEN <<>>
    ELSE (IF Head(replies).request.kind = kind THEN <<Head(replies)>> ELSE <<>>)
         \o AnswersTo(Tail(replies), kind)

\* what call r holds is derived from its own question and the replies to its
\* own requests
OwnResults(r) ==
    LET llm   == RepliesOf(ext_replies[r], "llm")
        store == RepliesOf(ext_replies[r], "store")
        narr  == AnswersTo(llm, "insights")
        sugg  == AnswersTo(llm, "related")
    IN  /\ \A i \in 1..Len(llm) : llm[i].request.question = question[r]
        /\ \A i \in 1..Len(store) : store[i].request = sql_query[r]
        /\ (op[r] \in {ANSWER, API} /\ sql_query[r] # NoText) =>
                /\ llm[1].outcome.kind = "text"
                /\ sql_query[r] = generate_sql_text(llm[1].outcome.text)
        /\ (op[r] \in {ANSWER, API} /\ results[r] # NoTable) =>
                /\ store[1].outcome.kind = "table"
                /\ results[r] = store[1].outcome.table
        /\ (op[r] \in {ANSWER, API} /\ insights[r] # NoText) =>
                \/ /\ Len(results[r].rows) = 0 /\ narr = <<>>
                   /\ insights[r] = <<"No data found for the given query.">>
                \/ /\ Len(narr) = 1 /\ narr[1].outcome.kind = "text"
                   /\ insights[r] = Trimmed(narr[1].outcome.text)
                \/ /\ Len(narr) = 1 /\ narr[1].outcome.kind # "text"
                   /\ insights[r] = <<"Error generating insights: ">> \o narr[1].outcome.msg
                \/ /\ Len(results[r].rows) > 0 /\ narr = <<>>
                   /\ IsPrefix(<<"Error generating insights: ">>, insights[r])
        /\ (op[r] \in {API, REL} /\ Ret(REL) \in Range(log[r])) =>
                /\ Len(sugg) = 1
                /\ related[r] = IF sugg[1].outcome.kind = "text"
                                THEN Take(NonBlankLines(sugg[1].outcome.text), 5)
                                ELSE FallbackQuestions

\* C19: in every interleaving of calls on the one service, each call's
\* statement, table, insight and suggestions come from its own question and
\* the replies to its own requests.
C19_CallsDoNotInterfere ==
    \A r \in Requests : OwnResults(r)

C19_Witness ==
    /\ op["r1"] = ANSWER /\ pc["r1"] = "insights"
    /\ op["r2"] = ANSWER /\ pc["r2"] = "returned"
    /\ question["r1"] # question["r2"]
    /\ sql_query["r1"] = StmtDrop /\ sql_query["r2"] = StmtSelect \o Semi
    /\ results["r1"] = TableEmpty /\ results["r2"] = TableTwo
    /\ log["r1"][Len(log["r1"])] = Ret(EXE)

\* the first position of entry e in log l, 0 when it is not there
FirstAt(l, e) ==
    IF e \in Range(l) THEN CHOOSE i \in 1..Len(l) : l[i] = e /\ \A j \in 1..i - 1 : l[j] # e
    ELSE 0

\* C20: POST /api/query never raises; when generate_sql or execute_sql failed
\* the response has success false, the message of the failure as error, empty
\* statement, rows, insight and suggestions, and get_related_questions was not
\* called; otherwise get_related_questions is called after the orchestrator
\* returned, with the question and the table, and the response has success
\* true, no error, and the statement, rows and insight of the orchestrator.
C20_RestNeverRaises ==
    \A r \in Requests : op[r] = API =>
        /\ pc[r] # "raised"
        /\ Raise(API) \notin Range(log[r])
        /\ Call(REL) \in Range(log[r]) =>
            /\ Ret(ANSWER) \in Range(log[r])
            /\ FirstAt(log[r], Ret(ANSWER)) < FirstAt(log[r], Call(REL))
            /\ LastReply(r).request = RelatedPrompt(question[r], results[r])
            /\ results[r] = RepliesOf(ext_replies[r], "store")[1].outcome.table
        /\ (pc[r] = "returned" /\ Raise(ANSWER) \in Range(log[r])) =>
            /\ Call(REL) \notin Range(log[r])
            /\ Raise(GEN) \in Range(log[r]) \/ Raise(EXE) \in Range(log[r])
            /\ response[r].success = FALSE
            /\ response[r].error =
                    (IF Raise(GEN) \in Range(log[r]) THEN <<"Error generating SQL: ">>
                     ELSE <<"Error executing SQL: ">>) \o LastReply(r).outcome.msg
            /\ response[r].question = question[r]
            /\ response[r].sql_query = NoText /\ response[r].results = <<>>
            /\ response[r].insights = NoText /\ response[r].related_questions = <<>>
        /\ (pc[r] = "returned" /\ Raise(ANSWER) \notin Range(log[r])) =>
            /\ log[r][Len(log[r]) - 1] = Ret(REL)
            /\ response[r].success = TRUE
            /\ response[r].error = NoText
            /\ response[r].question = question[r]
            /\ response[r].sql_query = sql_query[r]
            /\ response[r].insights = insights[r]
            /\ response[r].related_questions = related[r]
            /\ Len(response[r].results) = Len(results[r].rows)
            /\ \A i \in 1..Len(results[r].rows) : \A j \in 1..Len(results[r].columns) :
                    response[r].results[i][results[r].columns[j]] = results[r].rows[i][j]

C20_Witness ==
    \E r1, r2 \in Requests :
        /\ op[r1] = API /\ pc[r1] = "returned" /\ response[r1].success
        /\ Len(response[r1].results) = 2
        /\ response[r1].results[1]["name"] = "Restaurant A"
        /\ op[r2] = API /\ pc[r2] = "returned" /\ ~response[r2].success
        /\ response[r2].error = <<"Error executing SQL: ", "no such table: t">>

\* C21: when the statement yields a table without rows,
\* process_natural_language_query returns with the no-data literal as insight;
\* get_related_questions on that table writes "No results" where the column
\* names would be, also when the empty table has named columns, and returns a
\* list: what it parsed from the answer of the model, or the predefined one.
C21_EmptyTableStillServed ==
    \A r \in Requests :
        LET sugg == AnswersTo(RepliesOf(ext_replies[r], "llm"), "related")
        IN  /\ (op[r] \in {ANSWER, API} /\ Done(r, EXE) /\ Ret(EXE) \in Range(log[r])
                    /\ Len(results[r].rows) = 0 /\ pc[r] \notin {"insights"}) =>
                /\ Ret(INS) \in Range(log[r])
                /\ Raise(ANSWER) \notin Range(log[r])
                /\ insights[r] = <<"No data found for the given query.">>
                /\ op[r] = ANSWER => pc[r] = "returned" /\ error[r] = NoText
            /\ (Len(sugg) > 0 /\ Len(results[r].rows) = 0) =>
                /\ sugg[1].request.columns = <<"No results">>
                /\ sugg[1].request.question = question[r]
                /\ pc[r] = "returned"
                /\ related[r] \in
                        {FallbackQuestions} \cup
                        { Take(NonBlankLines(t), 5) : t \in RelatedResponses }

C21_Witness ==
    \E r1, r2 \in Requests :
        /\ op[r1] = API /\ pc[r1] = "returned" /\ response[r1].success
        /\ results[r1] = TableEmpty /\ Len(results[r1].columns) = 2
        /\ response[r1].insights = <<"No data found for the given query.">>
        /\ LastReply(r1).request.columns = <<"No results">>
        /\ Len(related[r1]) = 3
        /\ op[r2] = REL /\ pc[r2] = "returned" /\ results[r2] = TableEmpty
        /\ related[r2] = FallbackQuestions

\* C22: _clean_sql_query applied to its own result returns that result, for
\* every text: what the first pass returns has no run of three backquotes, no
\* whitespace at its ends and the terminator at its end.
C22_CleanIsIdempotent ==
    phase \in {"cleaned", "again"} =>
        /\ \A i \in 1..Len(out) - 2 :
                ~(out[i] = BT /\ out[i + 1] = BT /\ out[i + 2] = BT)
        /\ CleanStatement(out)
        /\ phase = "again" => out2 = out

C22_Witness ==
    /\ phase = "again"
    /\ text = <<BT, BT>> \o FenceSql \o <<BT>>
    /\ out = <<";">>
    /\ out2 = out

\* C23: the digest of a table with rows gives the number of rows of the table,
\* the names of all its columns in their order, at most the first five rows
\* in their order, and the section "Numeric column statistics" exactly when a
\* column of the table is numeric.
C23_DigestOfTable ==
    (phase = "digest" /\ Len(table.rows) > 0) =>
        LET n == Len(table.columns) IN
        /\ out.nrows = Len(table.rows)
        /\ Len(out.columns) = 2 * n - 1
        /\ \A j \in 1..n : out.columns[2 * j - 1] = table.columns[j]
        /\ \A j \in 1..n - 1 : out.columns[2 * j] = ", "
        /\ Len(out.sample) = (IF Len(table.rows) < 5 THEN Len(table.rows) ELSE 5)
        /\ \A i \in 1..Len(out.sample) : out.sample[i] = table.rows[i]
        /\ ("Numeric column statistics:" \in Range(out.stats))
                <=> (\E j \in 1..n : table.dtypes[j] \notin {"object", "bool"})

C23_Witness ==
    /\ phase = "digest"
    /\ table.columns = <<"name", "revenue">>
    /\ Len(table.rows) = 6
    /\ table.rows[1] # table.rows[6]
    /\ out.nrows = 6
    /\ Len(out.sample) = 5
    /\ out.stats = <<"Numeric column statistics:", "revenue">>

\* C24: the four ratings of every generated review are integers from 1 to 5.
C24_RatingsInScale ==
    \A i \in 1..Len(reviews) :
        /\ reviews[i].rating \in 1..5
        /\ reviews[i].food_rating \in 1..5
        /\ reviews[i].service_rating \in 1..5
        /\ reviews[i].ambiance_rating \in 1..5

RECURSIVE SumTotalPrice(_)
SumTotalPrice(items) ==
    IF items = <<>> THEN 0 ELSE Head(items).total_price + SumTotalPrice(Tail(items))

\* C25: a generated order has 1 to 5 items, each with quantity 1 to 3, each of
\* a menu item of the order's restaurant, at that item's price, with
\* total_price = unit_price * quantity; total_amount is the sum of the items'
\* total_price in whole cents, and is not the placeholder 0.
C25_OrderConsistent ==
    order.state = "done" =>
        /\ Len(order.items) \in 1..5
        /\ \A k \in 1..Len(order.items) :
            LET it == order.items[k] IN
            /\ it.quantity \in 1..3
            /\ \E i \in 1..Len(MenuItems) :
                /\ MenuItems[i].id = it.menu_item_id
                /\ MenuItems[i].restaurant_id = order.restaurant_id
                /\ MenuItems[i].price = it.unit_price
            /\ it.total_price = it.unit_price * it.quantity
        /\ order.total_amount = SumTotalPrice(order.items)
        /\ order.total_amount % Cent = 0
        /\ order.total_amount # 0

C25_Witness ==
    /\ order.state = "done"
    /\ order.restaurant_id = 2
    /\ Len(order.items) = 5
    /\ order.items[1].menu_item_id = 3 /\ order.items[1].quantity = 3
    /\ order.items[2].menu_item_id = 4 /\ order.items[2].quantity = 1
    /\ order.total_amount = (3 * 1299 + 799 + 3 * 799) * Cent

\* the questions get_related_questions may have returned
RelatedQuestions == UNION { Range(l) : l \in RelatedLists }

\* the renders around "Try it!": the click stores the selection and asks for
\* a rerun, the rerun shows the query page with the question in the input and
\* clears the selection, and no other render pre-fills anything
TryItRenders ==
    /\ (widgets.click.kind = "try" /\ widgets.rerun) =>
            /\ session_state.selected_question = widgets.click.arg
            /\ session_state.page = QUERY_PAGE
    /\ (widgets.click.kind = "try" /\ Idle) =>
            /\ widgets.shown = QUERY_PAGE
            /\ widgets.select_value = QUERY_PAGE
            /\ widgets.input_shown
            /\ widgets.input_default = widgets.click.arg
            /\ widgets.input_value = widgets.click.arg
            /\ session_state.selected_question = ""
    /\ Idle => ~Truthy(session_state.selected_question)
    /\ (Idle /\ widgets.click.kind # "try" /\ widgets.input_shown) =>
            widgets.input_default = ""
    /\ \A q \in RelatedQuestions, sq \in SampleQuestions :
            LET both   == [page |-> QUERY_PAGE, selected_question |-> sq, query_input |-> q]
                first  == prefill(both)
                second == prefill(first.session)
            IN  /\ first.default_query = q
                /\ first.session.selected_question = sq
                /\ first.session.query_input = ""
                /\ second.default_query = sq
                /\ second.session.selected_question = ""

\* the render after the pre-filled one: a page picked in the sidebar is shown,
\* and the query input, when shown, starts empty
AfterPrefill ==
    (widgets.click.kind = "try" /\ Idle) =>
        /\ widgets'.click.kind = "select" => widgets'.shown = widgets'.click.arg
        /\ widgets'.input_shown => widgets'.input_default = ""

\* C26: after "Try it!" on a sample question the next render shows the
\* Natural Language Query page with that question as the content of the query
\* input, and the stored selection is cleared by that render; no later render
\* pre-fills a question, and the render after the pre-filled one shows the
\* page the user picks in the sidebar; and with both a related question and a
\* sample question stored, the pre-fill takes the related question and keeps
\* the sample question, which the following pre-fill takes.
C26_TryItPrefillsOnce == []TryItRenders /\ [][AfterPrefill]_vars

C26_Witness ==
    /\ Idle
    /\ widgets.click = [kind |-> "try", arg |-> "What are the peak hours for orders?"]
    /\ widgets.shown = QUERY_PAGE
    /\ widgets.input_value = "What are the peak hours for orders?"
    /\ session_state.selected_question = ""

\* C27: after a click on the button of a related question, the next render
\* shows the query input with that question in it.
C27_RelatedClickPrefills ==
    (widgets.click.kind = "related" /\ Idle) =>
        /\ widgets.input_shown
        /\ widgets.input_value = widgets.click.arg

\* .env defines the variable Config reads, with a value that is not the placeholder
KeyConfigured ==
    /\ GOOGLE_API_KEY(env_file) \notin {None, <<>>}
    /\ GOOGLE_API_KEY(env_file) # <<PLACEHOLDER>>

\* C28: when the launcher ran its checks with the dependencies installed, a
\* .env that defines GOOGLE_AI_API_KEY with a non-placeholder value passes
\* the environment check and the launcher does not exit with status 1; and
\* when the environment check passed, Config holds a key that
\* validate_config accepts.
C28_CheckAgreesWithConfig ==
    (launcher.state # "idle" /\ ~launcher.skip_checks /\ launcher.deps_ok) =>
        /\ KeyConfigured =>
                /\ launcher.env_check = "passed"
                /\ launcher.exit = 0
                /\ ~launcher.check => launcher.state \in {"started", "configured"}
        /\ launcher.env_check = "passed" =>
                /\ validate_config(GOOGLE_API_KEY(env_file)) = "ok"
                /\ launcher.state = "configured" => launcher.config = "ok"

====
